---- MODULE Spec2Model ----
(***************************************************************************)
(* A model of the translation pipeline of epub-translator (src/js/app.js): *)
(* the concurrency gate, the translation cache, response reconciliation,   *)
(* the per-document batch pipeline, the document rewriter and the run      *)
(* controller.  Each part has its own specification over its own group of  *)
(* variables; the variables of the other parts stay at their idle values.  *)
(***************************************************************************)
EXTENDS Integers, Sequences, FiniteSets, TLC

VARIABLES
    \* ---- concurrency gate (createSemaphore) ----
    running,        \* the closure variable `running`
    queue,          \* the closure variable `queue`: callers whose resolver is queued, in order
    gate,           \* per caller of acquire: where it stands in acquire()
    wakeups,        \* the woken waiters whose continuation has not run yet, in the order
                    \* their resolvers were called (continuations run in that order)
    \* ---- translation cache (translationCache) ----
    cache,          \* the Map, as its entries in insertion order
    lastGet,        \* the last getFromCache call and what it returned
    \* ---- response reconciliation of one batch ----
    recParas,       \* the fragments: those of the batch, then one of another batch
    recIn,          \* the cleaned response text and the batch's expectedCount
    recPath,        \* which code path reconciled the batch ("none" before)
    \* ---- rewrite stage of one document ----
    rwParas,        \* paragraphs, as the rewrite stage finds them
    rwDoc,          \* per anchor: the text pieces it holds and whether it has <br>
    rwIdx,          \* the index of paragraphs.forEach (1-based: next to process)
    replacedElements, \* the Set of line 3070
    \* ---- batch pipeline of the documents translated concurrently ----
    shouldCancel,   \* the global cancellation flag (line 6)
    groups,         \* per document: groupedParagraphs, each group as [start, count]
    pParas,         \* per document: paragraphs
    docPc,          \* per document: where translateWithZhipuAI stands
    docIdx,         \* per document: the batch being mapped, or the retry-pass position
    retryList,      \* per document: untranslatedParagraphs (indices into paragraphs)
    task,           \* per batch task: pc, retries, the last error caught, the result
    \* ---- a run: handleTranslate, processMultipleFiles, translateCurrentFile ----
    runMode,        \* "single" (handleTranslate's own loop) or "multi" (processMultipleFiles)
    runPc,          \* where the run stands
    isTranslating,  \* line 5
    cancelBtn,      \* the cancel button: "hidden", "shown" or "disabled"
    numHtml,        \* number of HTML documents of the EPUB
    epubIdx,        \* processMultipleFiles: i (from 1)
    fileIdx,        \* file-group start i (single), position in the file loop (multi)
    docState,       \* single: per HTML document, where its translation stands
    translatedEpub, \* "null" or "zip"
    fileStatus,     \* fileListData[..].status
    progressStatus, \* what updateProgress last showed: "none", "translating", "complete"
    downloadShown,  \* downloadArea is visible
    cancelledWhileTranslating, \* history: the flag was set while a translateText call was pending
    \* ---- the retry loop of one batch task ----
    backend,        \* "zhipu" (translateWithZhipuAI) or "openrouter" (translateWithOpenRouter)
    retries,        \* the local variable `retries`
    attemptPc,      \* where the task body stands
    attempts,       \* requests sent so far
    waits,          \* the delays passed to setTimeout so far, in ms
    errors,         \* the errors caught so far
    outcome,         \* how the task's promise settled: "pending", "success", "failure", "thrown"
    \* ---- the grouper of one document ----
    paragraphLens,     \* per fragment, in extraction order: originalText.length
    groupPos,          \* the loop variable i (from 1); past the loop: Len + 2
    groupedParagraphs, \* the batches so far, each as the sequence of its fragments' indices
    currentBatch,      \* the batch being accumulated
    currentLength,      \* the sum of its fragments' lengths
    \* ---- extraction and rewriting of one parsed document ----
    dom,            \* the nodes under doc.body in document order: kind and parent
    exPos,          \* the node the TreeWalker examines next (0: no document)
    processedElements, \* the Set of line 2458
    exParas,        \* paragraphs, as extraction builds them
    dIdx,           \* the index of the rewrite stage's paragraphs.forEach (0: not started)
    dReplaced,      \* replacedElements of the rewrite stage on this document
    dWritten,       \* per written node the content it was given
    detached,        \* the nodes removed from the document by a write
    \* ---- progress reporting of a run ----
    progMode,       \* "single" (handleTranslate) or "multi" (processMultipleFiles)
    progPc,         \* "files", "completed" (an EPUB of several is finished), "ended"
    progEpub,       \* the EPUB being translated (1-based; 0: no run)
    progFile,       \* per HTML file of the EPUB: waiting, translating, piped, done
    translatedChars,       \* the counter of line 118
    totalCharsToTranslate, \* the counter of line 117
    progressPercent, \* what updateProgress last wrote to the progress display
    \* ---- the language check of handleTranslate and the format-only path ----
    selSource,      \* the checked radio button sourceLang
    selTarget,      \* the checked radio button targetLang
    convertChecked, \* the checkbox convertToHorizontal
    fmtPc,          \* where the click handler stands
    epubFiles,      \* epubZip.files in order: kind of entry and its bytes
    fmtOut,         \* the entries written to translatedEpub so far
    fmtPos,         \* the position of the loop over the entries (from 1)
    fmtCancel,      \* shouldCancel, as this run sees it
    requests        \* backend requests sent since the click

gateVars == <<running, queue, gate, wakeups>>
cacheVars == <<cache, lastGet>>
recVars == <<recParas, recIn, recPath>>
rwVars == <<rwParas, rwDoc, rwIdx, replacedElements>>
pipeVars == <<shouldCancel, groups, pParas, docPc, docIdx, retryList, task>>

runVars == <<runMode, runPc, isTranslating, cancelBtn, numHtml, epubIdx, fileIdx, docState,
             translatedEpub, fileStatus, progressStatus, downloadShown, cancelledWhileTranslating>>

retryVars == <<backend, retries, attemptPc, attempts, waits, errors, outcome>>

grouperVars == <<paragraphLens, groupPos, groupedParagraphs, currentBatch, currentLength>>

domVars == <<dom, exPos, processedElements, exParas, dIdx, dReplaced, dWritten, detached>>

progVars == <<progMode, progPc, progEpub, progFile, translatedChars, totalCharsToTranslate, progressPercent>>

fmtVars == <<selSource, selTarget, convertChecked, fmtPc, epubFiles, fmtOut, fmtPos, fmtCancel, requests>>

vars == <<gateVars, cacheVars, recVars, rwVars, pipeVars, runVars, retryVars, grouperVars, domVars, progVars, fmtVars>>

(***************************************************************************)
(* Bounds                                                                  *)
(***************************************************************************)
\* maxConcurrent of the gate under study (translationSemaphore uses 15; the
\* gate is parametric in it and the model uses a small value).
MaxConcurrent == 2
\* number of distinct callers of acquire in the gate specification
NumCallers == 4
\* capacity of the translation cache (MAX_CACHE_SIZE is 1000 in app.js:14; the
\* model uses a small capacity so that eviction happens)
MAX_CACHE_SIZE == 2
\* longest cleaned response text of the reconciliation specification
MaxTextLen == 7
\* largest expectedCount (fragments of the batch) of the reconciliation specification
MaxExpected == 3
\* anchors (block elements or loose text nodes) of the document of the rewrite specification
NumAnchors == 2
\* most fragments one block element is split into at its <br> tags
MaxShared == 2
\* most nodes under doc.body in the document of the extraction specification
MaxNodes == 4
\* HTML files per EPUB in the progress specification
ProgFiles == 3
\* most entries of the archive in the language specification
MaxEntries == 2

(***************************************************************************)
(* Concurrency gate: createSemaphore, app.js 55-70                         *)
(*                                                                         *)
(*   return async function acquire(fn) {                                   *)
(*     if (running >= maxConcurrent) {                                     *)
(*       await new Promise(resolve => queue.push(resolve));                *)
(*     }                                                                   *)
(*     running++;                                                          *)
(*     try { return await fn(); }                                          *)
(*     finally { running--; if (queue.length > 0) queue.shift()(); }       *)
(*   };                                                                    *)
(*                                                                         *)
(* A caller is "idle" before it calls acquire, "queued" while its resolver *)
(* sits in the queue, "woken" once its resolver was called and its         *)
(* continuation has not run yet, "running" between running++ and the       *)
(* settling of fn(), "returned"/"threw" between that and the finally       *)
(* block, and "released" (acquire's promise resolved) or "rejected" (it    *)
(* rejected with the task's error) after the finally block.                *)
(***************************************************************************)
GateCallers == 1..NumCallers

\* a gate that makes every caller wait
AlwaysWait(r) == TRUE

\* the test of line 59
MustWait(r) == r >= MaxConcurrent

\* an acquire that puts its resolver at the front of the queue
GateAcquireFront(c) ==
    IF MustWait(running)
    THEN /\ queue' = <<c>> \o queue
         /\ gate' = [gate EXCEPT ![c] = "queued"]
         /\ UNCHANGED <<running, wakeups>>
    ELSE /\ running' = running + 1
         /\ gate' = [gate EXCEPT ![c] = "running"]
         /\ UNCHANGED <<queue, wakeups>>

\* line 59-62, the call of acquire up to its first suspension: either the
\* resolver is queued, or running++ and fn() is started
GateAcquire(c) ==
    IF MustWait(running)
    THEN /\ queue' = Append(queue, c)
         /\ gate' = [gate EXCEPT ![c] = "queued"]
         /\ UNCHANGED <<running, wakeups>>
    ELSE /\ running' = running + 1
         /\ gate' = [gate EXCEPT ![c] = "running"]
         /\ UNCHANGED <<queue, wakeups>>

\* a continuation that starts fn() without counting it
GateResumeUncounted(c) ==
    /\ gate[c] = "woken"
    /\ c = Head(wakeups)
    /\ wakeups' = Tail(wakeups)
    /\ gate' = [gate EXCEPT ![c] = "running"]
    /\ UNCHANGED <<running, queue>>

\* line 62-64, the continuation of a woken waiter: running++ without a second
\* test of the limit, then fn() is started
GateResume(c) ==
    /\ gate[c] = "woken"
    /\ c = Head(wakeups)
    /\ wakeups' = Tail(wakeups)
    /\ running' = running + 1
    /\ gate' = [gate EXCEPT ![c] = "running"]
    /\ UNCHANGED queue

\* line 64: the promise of fn() settles, by return (ok) or by throw
GateSettle(c, ok) ==
    /\ gate[c] = "running"
    /\ gate' = [gate EXCEPT ![c] = IF ok THEN "returned" ELSE "threw"]
    /\ UNCHANGED <<running, queue, wakeups>>

\* how acquire's promise settles after the finally block: it resolves with
\* the task's value, or rejects with the task's error
Settled(pc) == IF pc = "threw" THEN "rejected" ELSE "released"

\* a finally block that gives the slot back and wakes nobody
GateReleaseNoWake(c) ==
    /\ gate[c] \in {"returned", "threw"}
    /\ running' = running - 1
    /\ gate' = [gate EXCEPT ![c] = Settled(gate[c])]
    /\ UNCHANGED <<queue, wakeups>>

\* line 65-68, the finally block: running--, and the head of the queue, if
\* any, is shifted and its resolver called
GateRelease(c) ==
    /\ gate[c] \in {"returned", "threw"}
    /\ running' = running - 1
    /\ IF Len(queue) > 0
       THEN /\ queue' = Tail(queue)
            /\ wakeups' = Append(wakeups, Head(queue))
            /\ gate' = [gate EXCEPT ![c] = Settled(gate[c]), ![Head(queue)] = "woken"]
       ELSE /\ queue' = queue
            /\ wakeups' = wakeups
            /\ gate' = [gate EXCEPT ![c] = Settled(gate[c])]

\* the tasks that have been started and have not finished
GateStarted == {c \in DOMAIN gate : gate[c] = "running"}

(***************************************************************************)
(* Text.  A string is a sequence of one-character strings.                 *)
(***************************************************************************)
Min(a, b) == IF a <= b THEN a ELSE b
Max(a, b) == IF a >= b THEN a ELSE b

\* String.prototype.substring(0, n)
Substring0(s, n) == SubSeq(s, 1, Min(n, Len(s)))

(***************************************************************************)
(* Translation cache: app.js 13-50                                         *)
(***************************************************************************)
\* line 31: text.substring(0, 100)
KeyPrefixLen == 100
\* line 32: prefix.substring(0, 20)
KeyHeadLen == 20

\* getCacheKey, line 29-33:
\*   `${sourceLang}-${targetLang}-${prefix.length}-${text.length}-${prefix.substring(0, 20)}`
\* The five parts are kept as a tuple: language codes are two letters and the
\* lengths are decimal numbers, so the "-" separated string determines the
\* first four parts and the rest is the fifth.
getCacheKey(text, sourceLang, targetLang) ==
    LET prefix == Substring0(text, KeyPrefixLen)
    IN  <<sourceLang, targetLang, Len(prefix), Len(text), Substring0(prefix, KeyHeadLen)>>

\* Map.prototype.get on the entry list; Absent stands for undefined
Absent == <<"undefined">>
MapHas(m, k) == \E i \in 1..Len(m) : m[i].key = k
MapIndex(m, k) == CHOOSE i \in 1..Len(m) : m[i].key = k
MapGet(m, k) == IF MapHas(m, k) THEN m[MapIndex(m, k)].value ELSE Absent
\* Map.prototype.set: an existing key keeps its place, a new key goes last.
\* (`text` is a history field: the text the stored value was obtained for.)
MapSetIfAbsent(m, k, v, t) ==
    IF MapHas(m, k) THEN m ELSE Append(m, [key |-> k, value |-> v, text |-> t])
MapSet(m, k, v, t) ==
    IF MapHas(m, k)
    THEN [m EXCEPT ![MapIndex(m, k)] = [key |-> k, value |-> v, text |-> t]]
    ELSE Append(m, [key |-> k, value |-> v, text |-> t])

addToCacheEvictNewest(m, text, sourceLang, targetLang, result) ==
    LET m1 == IF Len(m) >= MAX_CACHE_SIZE THEN SubSeq(m, 1, Len(m) - 1) ELSE m
    IN  MapSet(m1, getCacheKey(text, sourceLang, targetLang), result, <<text, sourceLang, targetLang>>)
addToCacheNoEviction(m, text, sourceLang, targetLang, result) ==
    MapSet(m, getCacheKey(text, sourceLang, targetLang), result, <<text, sourceLang, targetLang>>)
\* addToCache, line 36-44, as a function of the Map
addToCache(m, text, sourceLang, targetLang, result) ==
    LET m1 == IF Len(m) >= MAX_CACHE_SIZE THEN Tail(m) ELSE m
    IN  MapSet(m1, getCacheKey(text, sourceLang, targetLang), result, <<text, sourceLang, targetLang>>)

\* getFromCache, line 47-50
getFromCache(m, text, sourceLang, targetLang) ==
    MapGet(m, getCacheKey(text, sourceLang, targetLang))

\* the inputs of the cache specification: short texts, and long texts that
\* share their first 20 characters
Pad20 == [i \in 1..20 |-> "a"]
CacheTexts ==
    { <<"a", "b">>, <<"b", "a">>, <<"a">>,
      Pad20 \o <<"x">>, Pad20 \o <<"y">>, Pad20 \o <<"x", "y">> }
CacheLangs == { <<"en", "zh">>, <<"ja", "zh">> }
\* a cached value: the cleaned translation obtained for a text, or a second
\* translation of the same text
TranslationOf(text, n) == <<"tr", n>> \o text
CacheResults(text) == { TranslationOf(text, 1), TranslationOf(text, 2) }

NoGet == [called |-> FALSE]

CacheIdle ==
    /\ cache = <<>>
    /\ lastGet = NoGet

CacheInit == CacheIdle

\* a call of addToCache; lastGet remembers it (a history record: the arguments,
\* the value, and whether the Map was at capacity when the call was made)
AddToCache ==
    \E text \in CacheTexts, l \in CacheLangs : \E result \in CacheResults(text) :
        /\ cache' = addToCache(cache, text, l[1], l[2], result)
        /\ lastGet' = [called |-> FALSE, put |-> <<text, l[1], l[2]>>, value |-> result,
                       wasFull |-> Len(cache) >= MAX_CACHE_SIZE]

GetFromCache ==
    \E text \in CacheTexts, l \in CacheLangs :
        /\ lastGet' = [called |-> TRUE, text |-> <<text, l[1], l[2]>>,
                       result |-> getFromCache(cache, text, l[1], l[2]),
                       storedFor |-> IF MapHas(cache, getCacheKey(text, l[1], l[2]))
                                     THEN cache[MapIndex(cache, getCacheKey(text, l[1], l[2]))].text
                                     ELSE <<>>,
                       follows |-> IF lastGet.called THEN NoGet ELSE lastGet]
        /\ UNCHANGED cache


(***************************************************************************)
(* Response reconciliation: app.js 2714-2734, 2809-2880 (translateWithZhipuAI) *)
(* and 3595-3611, 3697-3707 (translateWithOpenRouter)                      *)
(*                                                                         *)
(* Characters: two letters, the space, the line break, and "P", which      *)
(* stands for one residual paragraph marker "[P<digits>]" (the pattern     *)
(* \[P\d+\] of lines 2721 and 2850).                                        *)
(***************************************************************************)
Chars == {"a", "b", " ", "\n", "P"}
IsSpace(c) == c \in {" ", "\n"}

\* null, and the value of a property never assigned
Null == <<"null">>
Undefined == <<"undefined">>
\* a JavaScript value that tests true: a non-empty string
Truthy(v) == v # Null /\ v # Undefined /\ v # <<>>

RECURSIVE TrimLeft(_)
TrimLeft(s) == IF s # <<>> /\ IsSpace(Head(s)) THEN TrimLeft(Tail(s)) ELSE s
RECURSIVE TrimRight(_)
TrimRight(s) ==
    IF s # <<>> /\ IsSpace(s[Len(s)]) THEN TrimRight(SubSeq(s, 1, Len(s) - 1)) ELSE s
\* String.prototype.trim
Trim(s) == TrimRight(TrimLeft(s))

\* s.replace(/\[P\d+\]\s*/g, ''): every marker goes, with the white space after it
RECURSIVE StripMarkers(_)
StripMarkers(s) ==
    IF s = <<>> THEN <<>>
    ELSE IF Head(s) = "P" THEN StripMarkers(TrimLeft(Tail(s)))
    ELSE <<Head(s)>> \o StripMarkers(Tail(s))

\* s.split(/\n/)
RECURSIVE SplitSingle(_)
SplitSingle(s) ==
    IF \A i \in 1..Len(s) : s[i] # "\n" THEN <<s>>
    ELSE LET i == CHOOSE k \in 1..Len(s) : s[k] = "\n" /\ \A j \in 1..(k - 1) : s[j] # "\n"
         IN  <<SubSeq(s, 1, i - 1)>> \o SplitSingle(SubSeq(s, i + 1, Len(s)))

\* the text after the line breaks that s starts with
RECURSIVE SkipBreaks(_)
SkipBreaks(s) == IF s # <<>> /\ Head(s) = "\n" THEN SkipBreaks(Tail(s)) ELSE s

\* s.split(/\n\n+/): the separators are the maximal runs of two or more line breaks
RECURSIVE SplitDouble(_)
SplitDouble(s) ==
    IF \A i \in 1..(Len(s) - 1) : ~(s[i] = "\n" /\ s[i + 1] = "\n") THEN <<s>>
    ELSE LET i == CHOOSE k \in 1..(Len(s) - 1) :
                      /\ s[k] = "\n" /\ s[k + 1] = "\n"
                      /\ \A j \in 1..(k - 1) : ~(s[j] = "\n" /\ s[j + 1] = "\n")
         IN  <<SubSeq(s, 1, i - 1)>> \o SplitDouble(SkipBreaks(SubSeq(s, i, Len(s))))

\* .map(line => line.trim()).filter(line => line)
RECURSIVE TrimAndFilter(_)
TrimAndFilter(ls) ==
    IF ls = <<>> THEN <<>>
    ELSE IF Trim(Head(ls)) = <<>> THEN TrimAndFilter(Tail(ls))
    ELSE <<Trim(Head(ls))>> \o TrimAndFilter(Tail(ls))

\* array.join(sep)
RECURSIVE Join(_, _)
Join(ls, sep) ==
    IF ls = <<>> THEN <<>>
    ELSE IF Len(ls) = 1 THEN ls[1]
    ELSE ls[1] \o sep \o Join(Tail(ls), sep)

\* array.slice(from, to) with 0-based bounds, 0 <= from
Slice(ls, from, to) ==
    IF from >= Min(to, Len(ls)) THEN <<>> ELSE SubSeq(ls, from + 1, Min(to, Len(ls)))

Abs(x) == IF x < 0 THEN 0 - x ELSE x
\* Math.ceil(n / d) for n >= 0, d > 0
CeilDiv(n, d) == (n + d - 1) \div d

\* line 2814 and 3698: the double-line-break split
doubleNewlineSplit(cleanedText) == TrimAndFilter(SplitDouble(cleanedText))
\* line 2822: the single-line-break split
singleNewlineSplit(cleanedText) == TrimAndFilter(SplitSingle(cleanedText))

\* line 2817-2847: the split the fresh path of translateWithZhipuAI chooses
ChosenSplit(cleanedText, expectedCount) ==
    LET d == doubleNewlineSplit(cleanedText)
        g == singleNewlineSplit(cleanedText)
    IN  IF Len(d) = expectedCount THEN d
        ELSE IF Len(g) = expectedCount THEN g
        ELSE IF Abs(Len(g) - expectedCount) < Abs(Len(d) - expectedCount) THEN g
        ELSE d

\* line 2850: translatedLines.map(line => line.replace(/\[P\d+\]\s*/g, '')...)
CleanLines(ls) == [i \in 1..Len(ls) |-> StripMarkers(ls[i])]

\* translatedLines of the fresh path of translateWithZhipuAI, as assigned from
ZhipuLines(cleanedText, expectedCount) == CleanLines(ChosenSplit(cleanedText, expectedCount))
\* translatedLines of the cache-hit path (both pipelines), line 2721-2722, 3598-3599
CachedLines(cachedResult) == doubleNewlineSplit(StripMarkers(cachedResult))
\* translatedLines of the fresh path of translateWithOpenRouter, line 3698
OpenRouterLines(cleanedText) == doubleNewlineSplit(cleanedText)

\* the skipReason of line 2877
SkipInsufficient == <<"AI", "insufficient">>

\* ZhipuAssign with an index slip: the first segment goes to every fragment
ZhipuAssignFirstOnly(para, idx, translatedLines, expectedCount) ==
    IF Len(translatedLines) = 0
    THEN [para EXCEPT !.translatedText = Null, !.skipReason = SkipInsufficient]
    ELSE [para EXCEPT !.translatedText = translatedLines[1]]

\* line 2853-2880: what fragment idx (0-based) of the batch becomes
ZhipuAssign(para, idx, translatedLines, expectedCount) ==
    IF Len(translatedLines) = expectedCount
    THEN [para EXCEPT !.translatedText = translatedLines[idx + 1]]
    ELSE IF Len(translatedLines) > expectedCount
    THEN LET linesPerPara == CeilDiv(Len(translatedLines), expectedCount)
             startIdx == idx * linesPerPara
             endIdx == Min(startIdx + linesPerPara, Len(translatedLines))
         IN  [para EXCEPT !.translatedText = Join(Slice(translatedLines, startIdx, endIdx), <<" ">>)]
    ELSE IF idx < Len(translatedLines)
    THEN [para EXCEPT !.translatedText = translatedLines[idx + 1]]
    ELSE [para EXCEPT !.translatedText = Null, !.skipReason = SkipInsufficient]

\* line 2724-2730, 3601-3607 and 3701-3707: what fragment idx (0-based) becomes
PositionalAssign(para, idx, translatedLines) ==
    IF idx < Len(translatedLines)
    THEN [para EXCEPT !.translatedText = translatedLines[idx + 1]]
    ELSE [para EXCEPT !.translatedText = para.originalText]

\* group.paragraphs.forEach((para, idx) => ...) over the batch, whose fragments
\* are the first expectedCount entries of ps
ForEachZhipu(ps, translatedLines, expectedCount) ==
    [k \in 1..Len(ps) |->
        IF k <= expectedCount THEN ZhipuAssign(ps[k], k - 1, translatedLines, expectedCount)
        ELSE ps[k]]
ForEachPositional(ps, translatedLines, expectedCount) ==
    [k \in 1..Len(ps) |->
        IF k <= expectedCount THEN PositionalAssign(ps[k], k - 1, translatedLines)
        ELSE ps[k]]

\* texts over Chars of length 1..n
RECURSIVE TextsOfLen(_)
TextsOfLen(n) ==
    IF n = 0 THEN {<<>>}
    ELSE {<<c>> \o t : c \in Chars, t \in TextsOfLen(n - 1)}
\* what cleanTranslatedText returns (line 2414-2418): a trimmed, non-empty text
CleanedTexts ==
    UNION { {t \in TextsOfLen(n) : ~IsSpace(t[1]) /\ ~IsSpace(t[n])} : n \in 1..MaxTextLen }

\* the original text of fragment k (line 2540-2545); the digits keep fragments apart
Digit(k) == CASE k = 1 -> "1" [] k = 2 -> "2" [] k = 3 -> "3" [] k = 4 -> "4" [] OTHER -> "5"
OriginalOf(k) == <<"o", Digit(k)>>
NewPara(k) ==
    [originalText |-> OriginalOf(k), translatedText |-> Undefined, skipReason |-> Null]

RecIdle ==
    /\ recParas = <<>>
    /\ recIn = <<>>
    /\ recPath = "none"

\* a batch of expectedCount fragments, not yet translated, followed by one
\* fragment of another batch, translated already or not; and the cleaned text
RecInit ==
    /\ recPath = "none"
    /\ \E expectedCount \in 1..MaxExpected, text \in CleanedTexts, other \in {Undefined, <<"b">>} :
        /\ recIn = [text |-> text, expectedCount |-> expectedCount, other |-> other]
        /\ recParas = [k \in 1..(expectedCount + 1) |->
                          IF k <= expectedCount THEN NewPara(k)
                          ELSE [NewPara(k) EXCEPT !.translatedText = other]]

ReconcileZhipuFresh ==
    /\ recPath = "none"
    /\ recPath' = "zhipuFresh"
    /\ recParas' = ForEachZhipu(recParas, ZhipuLines(recIn.text, recIn.expectedCount), recIn.expectedCount)
    /\ UNCHANGED recIn

ReconcileCacheHit ==
    /\ recPath = "none"
    /\ recPath' = "cacheHit"
    /\ recParas' = ForEachPositional(recParas, CachedLines(recIn.text), recIn.expectedCount)
    /\ UNCHANGED recIn

ReconcileOpenRouterFresh ==
    /\ recPath = "none"
    /\ recPath' = "openRouterFresh"
    /\ recParas' = ForEachPositional(recParas, OpenRouterLines(recIn.text), recIn.expectedCount)
    /\ UNCHANGED recIn

\* translatedLines of the path that reconciled the batch
RecLines ==
    CASE recPath = "zhipuFresh" -> ZhipuLines(recIn.text, recIn.expectedCount)
      [] recPath = "cacheHit" -> CachedLines(recIn.text)
      [] recPath = "openRouterFresh" -> OpenRouterLines(recIn.text)
      [] OTHER -> <<>>

(***************************************************************************)
(* Rewrite stage: app.js 3065-3160 (translateWithZhipuAI), the same code   *)
(* at 3892-3987 (translateWithOpenRouter).                                 *)
(*                                                                         *)
(* An anchor is a block element (paragraph.element, line 2540-2557) or a   *)
(* loose text node (paragraph.textNode, line 2560-2568).  A block element  *)
(* that holds <br> is split into one fragment per <br>-separated part      *)
(* (line 2484-2546); its content is the sequence of those parts.  No       *)
(* paragraph has the property textNodes, so the branch of line 3097 is     *)
(* never taken.                                                            *)
(***************************************************************************)
Anchors == 1..NumAnchors

\* how an anchor was extracted: a loose text node, or a block of n parts
Layouts ==
    {[isInline |-> TRUE, n |-> 1, hasBr |-> FALSE]}
    \cup {[isInline |-> FALSE, n |-> 1, hasBr |-> b] : b \in BOOLEAN}
    \cup {[isInline |-> FALSE, n |-> n, hasBr |-> TRUE] : n \in 2..MaxShared}

RwOriginal(a, j) == <<"o", Digit(a), Digit(j)>>
RwTranslation(a, j) == <<"t", Digit(a), Digit(j)>>
\* what translatedText can be when the rewrite stage starts: never set or
\* null, the empty string, the original text (line 2728, 3054), a translation
RwTexts(a, j) == {Null, <<>>, RwOriginal(a, j), RwTranslation(a, j)}

\* the paragraphs of anchors a..NumAnchors, in extraction order
RECURSIVE ParasFrom(_, _, _)
ParasFrom(a, layout, tr) ==
    IF a > NumAnchors THEN <<>>
    ELSE [j \in 1..layout[a].n |->
             [anchor |-> a, isInline |-> layout[a].isInline,
              originalText |-> RwOriginal(a, j), translatedText |-> tr[a][j]]]
         \o ParasFrom(a + 1, layout, tr)

\* line 3075 and 3092: the paragraph counts as translated
IsTranslated(para) == Truthy(para.translatedText) /\ para.translatedText # para.originalText

RECURSIVE SelectTranslated(_, _)
SelectTranslated(ps, a) ==
    IF ps = <<>> THEN <<>>
    ELSE IF IsTranslated(Head(ps)) /\ Head(ps).anchor = a
         THEN <<Head(ps)>> \o SelectTranslated(Tail(ps), a)
         ELSE SelectTranslated(Tail(ps), a)
\* line 3071-3081: elementTranslations.get(element)
elementTranslations(ps, a) == SelectTranslated(ps, a)

TextsOf(ps) == [i \in 1..Len(ps) |-> ps[i].translatedText]

\* line 3126-3144: the new content of a block element
BlockContent(el, para, translations) ==
    IF el.hasBr /\ Len(translations) > 1
    THEN [hasBr |-> TRUE, pieces |-> TextsOf(translations)]
    ELSE [hasBr |-> FALSE,
          pieces |-> << IF Len(translations) = 1 THEN para.translatedText
                        ELSE Join(TextsOf(translations), <<"\n", "\n">>) >>]

RwIdle ==
    /\ rwParas = <<>>
    /\ rwDoc = <<>>
    /\ rwIdx = 0
    /\ replacedElements = {}

RwInit ==
    /\ rwIdx = 1
    /\ replacedElements = {}
    /\ \E layout \in [Anchors -> Layouts] :
       \E tr \in [Anchors -> [1..MaxShared -> {"null", "empty", "original", "translated"}]] :
        /\ \A a \in Anchors, j \in 1..MaxShared : j > layout[a].n => tr[a][j] = "null"
        /\ rwParas = ParasFrom(1, layout,
                        [a \in Anchors |-> [j \in 1..MaxShared |->
                            CASE tr[a][j] = "null" -> Null
                              [] tr[a][j] = "empty" -> <<>>
                              [] tr[a][j] = "original" -> RwOriginal(a, j)
                              [] OTHER -> RwTranslation(a, j)]])
        /\ rwDoc = [a \in Anchors |->
                        [hasBr |-> layout[a].hasBr,
                         pieces |-> [j \in 1..layout[a].n |-> RwOriginal(a, j)]]]

\* line 3091-3160: one round of paragraphs.forEach
\* line 3093-3096: a loose text node gets its translation
RewriteTextNode ==
    /\ rwIdx \in 1..Len(rwParas)
    /\ IsTranslated(rwParas[rwIdx])
    /\ rwParas[rwIdx].isInline
    /\ rwDoc' = [rwDoc EXCEPT ![rwParas[rwIdx].anchor] =
                    [hasBr |-> FALSE, pieces |-> <<rwParas[rwIdx].translatedText>>]]
    /\ rwIdx' = rwIdx + 1
    /\ UNCHANGED <<rwParas, replacedElements>>

\* line 3110-3144: a block element not written yet gets the translations of
\* its translated paragraphs
RewriteElement ==
    /\ rwIdx \in 1..Len(rwParas)
    /\ IsTranslated(rwParas[rwIdx])
    /\ ~rwParas[rwIdx].isInline
    /\ rwParas[rwIdx].anchor \notin replacedElements
    /\ replacedElements' = replacedElements \cup {rwParas[rwIdx].anchor}
    /\ rwDoc' = [rwDoc EXCEPT ![rwParas[rwIdx].anchor] =
                    BlockContent(@, rwParas[rwIdx],
                                 elementTranslations(rwParas, rwParas[rwIdx].anchor))]
    /\ rwIdx' = rwIdx + 1
    /\ UNCHANGED rwParas

RewriteOverwrite ==
    /\ rwIdx \in 1..Len(rwParas)
    /\ IsTranslated(rwParas[rwIdx])
    /\ ~rwParas[rwIdx].isInline
    /\ rwParas[rwIdx].anchor \in replacedElements
    /\ rwDoc' = [rwDoc EXCEPT ![rwParas[rwIdx].anchor] =
                    [hasBr |-> FALSE, pieces |-> <<rwParas[rwIdx].translatedText>>]]
    /\ rwIdx' = rwIdx + 1
    /\ UNCHANGED <<rwParas, replacedElements>>
\* line 3112-3115: the element was written already
RewriteSkipReplaced ==
    /\ rwIdx \in 1..Len(rwParas)
    /\ IsTranslated(rwParas[rwIdx])
    /\ ~rwParas[rwIdx].isInline
    /\ rwParas[rwIdx].anchor \in replacedElements
    /\ rwIdx' = rwIdx + 1
    /\ UNCHANGED <<rwParas, rwDoc, replacedElements>>

\* line 3154-3159: the paragraph has no translation
RewriteSkipUntranslated ==
    /\ rwIdx \in 1..Len(rwParas)
    /\ ~IsTranslated(rwParas[rwIdx])
    /\ rwIdx' = rwIdx + 1
    /\ UNCHANGED <<rwParas, rwDoc, replacedElements>>

RewriteDone == rwIdx > Len(rwParas) /\ rwParas # <<>>

\* the text is one of the pieces the anchor holds
HoldsText(el, text) == \E i \in 1..Len(el.pieces) : el.pieces[i] = text

(***************************************************************************)
(* Batch pipeline: translateWithZhipuAI, app.js 2678-3060, for the         *)
(* documents that handleTranslate translates concurrently (line 2042-2105: *)
(* CONCURRENT_FILES documents at a time, each through translateText).      *)
(* translateWithOpenRouter (3555-3890) has the same structure.             *)
(*                                                                         *)
(* JavaScript runs one piece of synchronous code at a time.  A step of the *)
(* model is the code between two suspension points.  The batch.map of line *)
(* 2695 calls acquire for every group without suspending: while a document *)
(* is "dispatching" nothing else runs.                                     *)
(***************************************************************************)
\* line 2681
maxRetries == 3
\* most batches of a document
MaxBatches == 4

SourceLang == "en"
TargetLang == "zh"

\* original texts; "4", "2" is a text of digits only (line 2705)
TextA == <<"o", "1">>
TextB == <<"o", "2">>
TextC == <<"o", "3">>
TextDigits == <<"4", "2">>
\* the translation the backend returns for one paragraph
TranslatedAs(text) == <<"t">> \o Tail(text)

\* the documents of a run: per document its paragraphs' texts and its groups.
\* Either one document of three groups, or two documents translated
\* concurrently whose first groups have the same text, or one document of
\* four groups of one paragraph, the last with the text of the first.
DocConfigs ==
    { << [texts |-> <<TextA, TextB, TextC, TextDigits>>,
          groups |-> << [start |-> 1, count |-> 2], [start |-> 3, count |-> 1],
                        [start |-> 4, count |-> 1] >>] >>,
      << [texts |-> <<TextA, TextB>>,
          groups |-> << [start |-> 1, count |-> 2] >>],
         [texts |-> <<TextA, TextB, TextC>>,
          groups |-> << [start |-> 1, count |-> 2], [start |-> 3, count |-> 1] >>] >>,
      << [texts |-> <<TextA, TextB, TextC, TextA>>,
          groups |-> << [start |-> 1, count |-> 1], [start |-> 2, count |-> 1],
                        [start |-> 3, count |-> 1], [start |-> 4, count |-> 1] >>] >> }

Docs == DOMAIN groups
TaskIds == {<<d, b>> : d \in Docs, b \in 1..MaxBatches} \cap {c \in Nat \X Nat : c[1] \in Docs /\ c[2] \in DOMAIN groups[c[1]]}
TasksOf(d) == {<<d, b>> : b \in DOMAIN groups[d]}

GroupParas(d, b) == SubSeq(pParas[d], groups[d][b].start, groups[d][b].start + groups[d][b].count - 1)
\* line 2630: combinedText
combinedText(d, b) ==
    Join([i \in 1..groups[d][b].count |-> pParas[d][groups[d][b].start + i - 1].originalText],
         <<"\n", "\n">>)

\* line 2700 and 2705: /^[\d\s\p{P}\p{S}]+$/u
DigitOrPunct == {"0", "1", "2", "3", "4", "5", "6", "7", "8", "9", " ", "\n", ".", ",", "-"}
SkipRule(text) == Len(text) < 1 \/ \A i \in 1..Len(text) : text[i] \in DigitOrPunct
SkipEmpty == <<"empty">>
SkipDigits == <<"digits">>
SkipApiFailed == <<"API", "failed">>

\* the paragraphs from the group's first on, and ps with these replaced
FromGroup(ps, g) == SubSeq(ps, g.start, Len(ps))
OnGroup(ps, g, changed) == SubSeq(ps, 1, g.start - 1) \o changed

SetSkipReason(ps, n, reason) ==
    [k \in 1..Len(ps) |-> IF k <= n THEN [ps[k] EXCEPT !.skipReason = reason] ELSE ps[k]]

\* the cleaned responses the backend may give for a group: one translation
\* per paragraph, separated by blank lines or by single line breaks, or (for
\* a group of several) only the first paragraph's
FullResponse(d, b) ==
    Join([i \in 1..groups[d][b].count |->
             TranslatedAs(pParas[d][groups[d][b].start + i - 1].originalText)], <<"\n", "\n">>)
SingleBreakResponse(d, b) ==
    Join([i \in 1..groups[d][b].count |->
             TranslatedAs(pParas[d][groups[d][b].start + i - 1].originalText)], <<"\n">>)
ShortResponse(d, b) == TranslatedAs(pParas[d][groups[d][b].start].originalText)
Responses(d, b) == {FullResponse(d, b), SingleBreakResponse(d, b), ShortResponse(d, b)}

NoSync == \A d \in Docs : docPc[d] # "dispatching"

\* the requests in flight: a batch request is known by its task and attempt,
\* a retry-pass request by its document and position
BatchRequests == {<<"batch", c[1], c[2], task[c].retries>> : c \in {x \in TaskIds : task[x].pc = "inflight"}}
RetryRequests == {<<"retry", d, docIdx[d], 0>> : d \in {x \in Docs : docPc[x] = "retry"}}
InFlight == BatchRequests \cup RetryRequests

\* line 2712-2783: one round of the retry loop up to its suspension: a cache
\* hit assigns and returns, otherwise the request is sent
BeginAttempt(c, t) ==
    LET d == c[1]
        b == c[2]
        g == groups[d][b]
        cachedResult == getFromCache(cache, combinedText(d, b), SourceLang, TargetLang)
    IN  IF Truthy(cachedResult)
        THEN /\ pParas' = [pParas EXCEPT ![d] =
                   OnGroup(@, g, ForEachPositional(FromGroup(@, g), CachedLines(cachedResult), g.count))]
             /\ task' = [task EXCEPT ![c] = [t EXCEPT !.pc = "finished", !.result = "cached"]]
        ELSE /\ task' = [task EXCEPT ![c] = [t EXCEPT !.pc = "inflight"]]
             /\ UNCHANGED pParas

\* line 2697-2712: the task starts: the skip rule, then the retry loop
BeginTask(c) ==
    LET d == c[1]
        b == c[2]
        g == groups[d][b]
    IN  IF Len(combinedText(d, b)) < 1
        THEN /\ pParas' = [pParas EXCEPT ![d] = OnGroup(@, g, SetSkipReason(FromGroup(@, g), g.count, SkipEmpty))]
             /\ task' = [task EXCEPT ![c].pc = "finished", ![c].result = "skipped"]
        ELSE IF SkipRule(combinedText(d, b))
        THEN /\ pParas' = [pParas EXCEPT ![d] = OnGroup(@, g, SetSkipReason(FromGroup(@, g), g.count, SkipDigits))]
             /\ task' = [task EXCEPT ![c].pc = "finished", ![c].result = "skipped"]
        ELSE BeginAttempt(c, task[c])

\* the gate sees fn() settle when the task has finished (fn catches every
\* error of an attempt, line 2907, and returns)
SettleIfFinished(c) ==
    gate' = [gate EXCEPT ![c] = IF task'[c].pc = "finished" THEN "returned" ELSE "running"]

\* a retry pass that takes every paragraph
EveryParagraph(ps) == 1..Len(ps)
\* line 2981: untranslatedParagraphs, as indices
Untranslated(ps) ==
    {k \in 1..Len(ps) : ~Truthy(ps[k].translatedText) \/ ps[k].translatedText = ps[k].originalText}
RECURSIVE SortedSeq(_)
SortedSeq(S) ==
    IF S = {} THEN <<>>
    ELSE LET m == CHOOSE x \in S : \A y \in S : x <= y
         IN  <<m>> \o SortedSeq(S \ {m})

\* line 2953-2995: after the dispatch loop: the untranslated paragraphs are
\* collected and the first one's request is sent; with none the rewrite
\* stage follows and the function returns
AfterLoop(d, ps) ==
    /\ retryList' = [retryList EXCEPT ![d] = SortedSeq(Untranslated(ps))]
    /\ IF Untranslated(ps) = {}
       THEN docPc' = [docPc EXCEPT ![d] = "done"] /\ docIdx' = [docIdx EXCEPT ![d] = 0]
       ELSE docPc' = [docPc EXCEPT ![d] = "retry"] /\ docIdx' = [docIdx EXCEPT ![d] = 1]

PipeIdle ==
    /\ shouldCancel = FALSE
    /\ groups = <<>>
    /\ pParas = <<>>
    /\ docPc = <<>>
    /\ docIdx = <<>>
    /\ retryList = <<>>
    /\ task = <<>>

NewTask == [pc |-> "pending", retries |-> 0, lastError |-> "none", result |-> "none"]

PipeInit ==
    /\ shouldCancel = FALSE
    /\ running = 0
    /\ queue = <<>>
    /\ wakeups = <<>>
    /\ cache = <<>>
    /\ lastGet = NoGet
    /\ \E cfg \in DocConfigs :
        /\ groups = [d \in DOMAIN cfg |-> cfg[d].groups]
        /\ pParas = [d \in DOMAIN cfg |-> [k \in DOMAIN cfg[d].texts |->
                        [originalText |-> cfg[d].texts[k], translatedText |-> Undefined,
                         skipReason |-> Null]]]
        /\ docPc = [d \in DOMAIN cfg |-> "idle"]
        /\ docIdx = [d \in DOMAIN cfg |-> 0]
        /\ retryList = [d \in DOMAIN cfg |-> <<>>]
        /\ task = [c \in {<<d, b>> : d \in DOMAIN cfg, b \in 1..MaxBatches} \cap
                         {x \in Nat \X Nat : x[1] \in DOMAIN cfg /\ x[2] \in DOMAIN cfg[x[1]].groups}
                     |-> NewTask]
        /\ gate = [c \in {<<d, b>> : d \in DOMAIN cfg, b \in 1..MaxBatches} \cap
                         {x \in Nat \X Nat : x[1] \in DOMAIN cfg /\ x[2] \in DOMAIN cfg[x[1]].groups}
                     |-> "idle"]

\* handleCancel, line 565-572, during the run (isTranslating is true)
Cancel ==
    /\ NoSync
    /\ \E d \in Docs : docPc[d] # "done"
    /\ ~shouldCancel
    /\ shouldCancel' = TRUE
    /\ UNCHANGED <<gateVars, cacheVars, groups, pParas, docPc, docIdx, retryList, task>>

\* line 2684-2689: the document reaches the dispatch loop; with the flag set
\* the loop is left at once and the code after it runs
DocStart ==
    \E d \in Docs :
        /\ NoSync
        /\ docPc[d] = "idle"
        /\ IF shouldCancel
           THEN AfterLoop(d, pParas[d])
           ELSE /\ docPc' = [docPc EXCEPT ![d] = "dispatching"]
                /\ docIdx' = [docIdx EXCEPT ![d] = 1]
                /\ UNCHANGED retryList
        /\ UNCHANGED <<gateVars, cacheVars, shouldCancel, groups, pParas, task>>

\* line 2695-2696: batch.map calls the gate for the next group; admitted, the
\* task runs to its first suspension; after the last group the document waits
\* for all of them (line 2923)
DispatchOne ==
    \E d \in Docs :
        /\ docPc[d] = "dispatching"
        /\ LET c == <<d, docIdx[d]>>
           IN  /\ IF MustWait(running)
                  THEN GateAcquire(c) /\ UNCHANGED <<pParas, task>>
                  ELSE /\ running' = running + 1
                       /\ UNCHANGED <<queue, wakeups>>
                       /\ BeginTask(c)
                       /\ SettleIfFinished(c)
        /\ IF docIdx[d] = Len(groups[d])
           THEN docPc' = [docPc EXCEPT ![d] = "awaitAll"] /\ docIdx' = [docIdx EXCEPT ![d] = 0]
           ELSE docIdx' = [docIdx EXCEPT ![d] = @ + 1] /\ UNCHANGED docPc
        /\ UNCHANGED <<cacheVars, shouldCancel, groups, retryList>>

\* line 60-64: a woken waiter continues: running++ and its task starts
TaskResume ==
    \E c \in TaskIds :
        /\ NoSync
        /\ gate[c] = "woken"
        /\ c = Head(wakeups)
        /\ wakeups' = Tail(wakeups)
        /\ running' = running + 1
        /\ UNCHANGED queue
        /\ BeginTask(c)
        /\ SettleIfFinished(c)
        /\ UNCHANGED <<cacheVars, shouldCancel, groups, docPc, docIdx, retryList>>

\* line 2796-2905: the response is a completion: it is cleaned, cached,
\* reconciled, and the task returns
ResponseOk ==
    \E c \in TaskIds :
        /\ NoSync
        /\ task[c].pc = "inflight"
        /\ \E cleanedText \in Responses(c[1], c[2]) :
            /\ cache' = addToCache(cache, combinedText(c[1], c[2]), SourceLang, TargetLang, cleanedText)
            /\ pParas' = [pParas EXCEPT ![c[1]] =
                   OnGroup(@, groups[c[1]][c[2]],
                           ForEachZhipu(FromGroup(@, groups[c[1]][c[2]]),
                                        ZhipuLines(cleanedText, groups[c[1]][c[2]].count),
                                        groups[c[1]][c[2]].count))]
        /\ task' = [task EXCEPT ![c].pc = "finished", ![c].result = "translated"]
        /\ gate' = [gate EXCEPT ![c] = "returned"]
        /\ UNCHANGED <<running, queue, wakeups, lastGet, shouldCancel, groups, docPc, docIdx, retryList>>

CatchErrorAndCache(c, e) ==
    /\ IF task[c].retries + 1 >= maxRetries
       THEN /\ task' = [task EXCEPT ![c] = [pc |-> "finished", retries |-> @.retries + 1,
                                            lastError |-> e, result |-> "failed"]]
            /\ gate' = [gate EXCEPT ![c] = "returned"]
       ELSE /\ task' = [task EXCEPT ![c] = [pc |-> "backoff", retries |-> @.retries + 1,
                                            lastError |-> e, result |-> "none"]]
            /\ UNCHANGED gate
    /\ cache' = addToCache(cache, combinedText(c[1], c[2]), SourceLang, TargetLang, <<e>>)
    /\ UNCHANGED <<running, queue, wakeups, lastGet, shouldCancel, groups, pParas, docPc, docIdx, retryList>>
\* a catch block that does not count the attempt
CatchErrorUncounted(c, e) ==
    /\ task' = [task EXCEPT ![c] = [pc |-> "backoff", retries |-> @.retries,
                                    lastError |-> e, result |-> "none"]]
    /\ UNCHANGED gate
    /\ UNCHANGED <<running, queue, wakeups, cacheVars, shouldCancel, groups, pParas, docPc, docIdx, retryList>>
\* line 2907-2915: what the catch block does with an error of kind e
CatchError(c, e) ==
    /\ IF task[c].retries + 1 >= maxRetries
       THEN /\ task' = [task EXCEPT ![c] = [pc |-> "finished", retries |-> @.retries + 1,
                                            lastError |-> e, result |-> "failed"]]
            /\ gate' = [gate EXCEPT ![c] = "returned"]
       ELSE /\ task' = [task EXCEPT ![c] = [pc |-> "backoff", retries |-> @.retries + 1,
                                            lastError |-> e, result |-> "none"]]
            /\ UNCHANGED gate
    /\ UNCHANGED <<running, queue, wakeups, cacheVars, shouldCancel, groups, pParas, docPc, docIdx, retryList>>

\* line 2785-2791: the response has status 401; the error is thrown inside the try
Response401 ==
    \E c \in TaskIds : NoSync /\ task[c].pc = "inflight" /\ CatchError(c, "auth")

\* line 2763-2801: the request fails otherwise: network error, abort by the
\* timeout, another non-success status, an empty completion
ResponseError ==
    \E c \in TaskIds : NoSync /\ task[c].pc = "inflight" /\ CatchError(c, "other")

\* line 2914 and 2712: the backoff delay is over, the loop goes round
BackoffOver ==
    \E c \in TaskIds :
        /\ NoSync
        /\ task[c].pc = "backoff"
        /\ BeginAttempt(c, task[c])
        /\ SettleIfFinished(c)
        /\ UNCHANGED <<running, queue, wakeups, cacheVars, shouldCancel, groups, docPc, docIdx, retryList>>

\* line 65-68: the finally block of acquire for a finished task
TaskRelease ==
    \E c \in TaskIds :
        /\ NoSync
        /\ GateRelease(c)
        /\ UNCHANGED <<cacheVars, pipeVars>>

\* a results.forEach that records nothing
MarkNothing(d, ps, b) == ps
\* line 2926-2939: results.forEach: a failed group's paragraphs get the reason
RECURSIVE MarkFailed(_, _, _)
MarkFailed(d, ps, b) ==
    IF b = 0 THEN ps
    ELSE LET rest == MarkFailed(d, ps, b - 1)
         IN  IF task[<<d, b>>].result = "failed"
             THEN OnGroup(rest, groups[d][b], SetSkipReason(FromGroup(rest, groups[d][b]), groups[d][b].count, SkipApiFailed))
             ELSE rest

\* line 2923-2995: all tasks of the document have resolved
AfterAll ==
    \E d \in Docs :
        /\ NoSync
        /\ docPc[d] = "awaitAll"
        /\ \A c \in TasksOf(d) : gate[c] = "released"
        /\ pParas' = [pParas EXCEPT ![d] = MarkFailed(d, @, Len(groups[d]))]
        /\ AfterLoop(d, MarkFailed(d, pParas[d], Len(groups[d])))
        /\ UNCHANGED <<gateVars, cacheVars, shouldCancel, groups, task>>

\* line 2989-2995: the next paragraph of untranslatedParagraphs after position
\* i that is still untranslated, or 0
NextRetry(d, ps, i) ==
    LET later == {j \in (i + 1)..Len(retryList[d]) : retryList[d][j] \in Untranslated(ps)}
    IN  IF later = {} THEN 0 ELSE CHOOSE j \in later : \A k \in later : j <= k

\* the retry-pass response was handled with paragraphs ps: the next request
\* is sent, or the pass ends
RetryAdvance(d, ps) ==
    /\ pParas' = [pParas EXCEPT ![d] = ps]
    /\ IF NextRetry(d, ps, docIdx[d]) = 0
       THEN docPc' = [docPc EXCEPT ![d] = "done"] /\ docIdx' = [docIdx EXCEPT ![d] = 0]
       ELSE docIdx' = [docIdx EXCEPT ![d] = NextRetry(d, ps, docIdx[d])] /\ UNCHANGED docPc
    /\ UNCHANGED <<gateVars, cacheVars, shouldCancel, groups, retryList, task>>

RetryPara(d) == retryList[d][docIdx[d]]

\* line 3037-3046: the retry-pass request returns a translation
RetryOk ==
    \E d \in Docs :
        /\ NoSync
        /\ docPc[d] = "retry"
        /\ RetryAdvance(d, [pParas[d] EXCEPT ![RetryPara(d)] =
                               [originalText |-> @.originalText,
                                translatedText |-> TranslatedAs(@.originalText),
                                skipReason |-> Null]])

\* line 3047-3049: the retry-pass request returns an empty completion
RetryEmpty ==
    \E d \in Docs :
        /\ NoSync
        /\ docPc[d] = "retry"
        /\ RetryAdvance(d, pParas[d])

\* line 3051-3055: the retry-pass request fails
RetryError ==
    \E d \in Docs :
        /\ NoSync
        /\ docPc[d] = "retry"
        /\ RetryAdvance(d, [pParas[d] EXCEPT ![RetryPara(d)] =
                               [originalText |-> @.originalText,
                                translatedText |-> @.originalText,
                                skipReason |-> @.skipReason]])

(***************************************************************************)
(* A run.  With one EPUB in the list handleTranslate (1872-2294) translates *)
(* its HTML documents in file groups of CONCURRENT_FILES; with several,    *)
(* processMultipleFiles (645-740) handles the EPUBs one after another, each *)
(* through translateCurrentFile (903-1114).  A pending translateText call   *)
(* is the batch pipeline above at work on one document.                    *)
(***************************************************************************)
\* line 2043
CONCURRENT_FILES == 4
MaxHtml == 5
NumEpubs == 2

RunIdle ==
    /\ runMode = "none"
    /\ runPc = "idle"
    /\ isTranslating = FALSE
    /\ cancelBtn = "hidden"
    /\ numHtml = 0
    /\ epubIdx = 0
    /\ fileIdx = 0
    /\ docState = <<>>
    /\ translatedEpub = "null"
    /\ fileStatus = <<>>
    /\ progressStatus = "none"
    /\ downloadShown = FALSE
    /\ cancelledWhileTranslating = FALSE

\* the pipeline's variables other than the flag are not looked at by a run
PipeRest == <<groups, pParas, docPc, docIdx, retryList, task>>

\* a translateText call is pending
TranslationPending ==
    \/ runMode = "single" /\ \E k \in DOMAIN docState : docState[k] = "translating"
    \/ runMode = "multi" /\ runPc = "translating"

\* line 1925-1991 and 1977-1988: handleTranslate prepares the run
StartRun ==
    /\ runPc = "idle"
    /\ \E n \in 1..MaxHtml, mode \in {"single", "multi"} :
        /\ numHtml' = n
        /\ runMode' = mode
        /\ docState' = IF mode = "single" THEN [k \in 1..n |-> "waiting"] ELSE <<>>
        /\ fileStatus' = IF mode = "single" THEN <<"pending">> ELSE [i \in 1..NumEpubs |-> "pending"]
        /\ runPc' = IF mode = "single" THEN "counting" ELSE "fileStart"
        /\ epubIdx' = IF mode = "single" THEN 0 ELSE 1
    /\ isTranslating' = TRUE
    /\ shouldCancel' = FALSE
    /\ cancelBtn' = "shown"
    /\ downloadShown' = FALSE
    /\ UNCHANGED <<fileIdx, translatedEpub, progressStatus, cancelledWhileTranslating>>

\* line 565-572: the user clicks the cancel button
HandleCancel ==
    /\ cancelBtn = "shown"
    /\ isTranslating
    /\ shouldCancel' = TRUE
    /\ cancelBtn' = "disabled"
    /\ cancelledWhileTranslating' = TranslationPending
    /\ UNCHANGED <<runMode, runPc, isTranslating, numHtml, epubIdx, fileIdx, docState,
                   translatedEpub, fileStatus, progressStatus, downloadShown>>

\* line 1999-2020: the characters are counted, the output archive is created
SingleCounted ==
    /\ runMode = "single"
    /\ runPc = "counting"
    /\ runPc' = "groupTop"
    /\ translatedEpub' = "zip"
    /\ UNCHANGED <<shouldCancel, runMode, isTranslating, cancelBtn, numHtml, epubIdx, fileIdx,
                   docState, fileStatus, progressStatus, downloadShown, cancelledWhileTranslating>>

GroupOf(i) == {k \in 1..numHtml : i < k /\ k <= i + CONCURRENT_FILES}

\* line 2044-2064: top of the file-group loop: the only place where
\* handleTranslate reads the flag
SingleGroupTop ==
    /\ runMode = "single"
    /\ runPc = "groupTop"
    /\ IF fileIdx >= numHtml
       THEN /\ runPc' = "others"
            /\ UNCHANGED <<isTranslating, cancelBtn, docState>>
       ELSE IF shouldCancel
       THEN /\ runPc' = "ended"
            /\ isTranslating' = FALSE
            /\ cancelBtn' = "hidden"
            /\ UNCHANGED docState
       ELSE /\ runPc' = "group"
            /\ docState' = [k \in 1..numHtml |-> IF k \in GroupOf(fileIdx) THEN "reading" ELSE docState[k]]
            /\ UNCHANGED <<isTranslating, cancelBtn>>
    /\ UNCHANGED <<shouldCancel, runMode, numHtml, epubIdx, fileIdx, translatedEpub, fileStatus,
                   progressStatus, downloadShown, cancelledWhileTranslating>>

\* line 2065-2071: a document of the group is read and translateText is called
SingleDocRead ==
    /\ runMode = "single"
    /\ runPc = "group"
    /\ \E k \in GroupOf(fileIdx) :
        /\ docState[k] = "reading"
        /\ docState' = [docState EXCEPT ![k] = "translating"]
    /\ UNCHANGED <<shouldCancel, runMode, runPc, isTranslating, cancelBtn, numHtml, epubIdx, fileIdx,
                   translatedEpub, fileStatus, progressStatus, downloadShown, cancelledWhileTranslating>>

\* line 2071-2101: translateText has returned the document
SingleDocTranslated ==
    /\ runMode = "single"
    /\ runPc = "group"
    /\ \E k \in GroupOf(fileIdx) :
        /\ docState[k] = "translating"
        /\ docState' = [docState EXCEPT ![k] = "done"]
    /\ progressStatus' = "translating"
    /\ UNCHANGED <<shouldCancel, runMode, runPc, isTranslating, cancelBtn, numHtml, epubIdx, fileIdx,
                   translatedEpub, fileStatus, downloadShown, cancelledWhileTranslating>>

\* line 2426 and 2286-2293: translateText throws (no API key): the catch
\* block of handleTranslate ends the run
SingleDocThrows ==
    /\ runMode = "single"
    /\ runPc = "group"
    /\ \E k \in GroupOf(fileIdx) : docState[k] = "translating"
    /\ runPc' = "ended"
    /\ isTranslating' = FALSE
    /\ cancelBtn' = "hidden"
    /\ UNCHANGED <<shouldCancel, runMode, numHtml, epubIdx, fileIdx, docState, translatedEpub,
                   fileStatus, progressStatus, downloadShown, cancelledWhileTranslating>>

\* line 2105-2114: all documents of the group are translated and saved
SingleGroupDone ==
    /\ runMode = "single"
    /\ runPc = "group"
    /\ \A k \in GroupOf(fileIdx) : docState[k] = "done"
    /\ fileIdx' = fileIdx + CONCURRENT_FILES
    /\ runPc' = "groupTop"
    /\ UNCHANGED <<shouldCancel, runMode, isTranslating, cancelBtn, numHtml, epubIdx, docState,
                   translatedEpub, fileStatus, progressStatus, downloadShown, cancelledWhileTranslating>>

\* line 2116-2284: the other files are copied, then the run completes
SingleComplete ==
    /\ runMode = "single"
    /\ runPc = "others"
    /\ progressStatus' = "complete"
    /\ fileStatus' = [fileStatus EXCEPT ![1] = "completed"]
    /\ downloadShown' = TRUE
    /\ cancelBtn' = "hidden"
    /\ isTranslating' = FALSE
    /\ runPc' = "ended"
    /\ UNCHANGED <<shouldCancel, runMode, numHtml, epubIdx, fileIdx, docState, translatedEpub,
                   cancelledWhileTranslating>>

\* the files of an EPUB in the file loop of translateCurrentFile: its HTML
\* documents, then one other file
FilesInEpub == numHtml + 1

\* line 706-739: processMultipleFiles goes on after EPUB epubIdx, whose
\* handling left the statuses fs, the flag isT, the button btn and the
\* download area shown: the next EPUB, or the end of the run
MultiNext(fs, isT, btn, shown) ==
    /\ fileStatus' = fs
    /\ fileIdx' = 0
    /\ IF epubIdx < NumEpubs
       THEN /\ epubIdx' = epubIdx + 1
            /\ translatedEpub' = "null"
            /\ runPc' = "fileStart"
            /\ isTranslating' = isT
            /\ cancelBtn' = btn
            /\ downloadShown' = shown
       ELSE /\ runPc' = "ended"
            /\ downloadShown' = TRUE
            /\ cancelBtn' = "hidden"
            /\ isTranslating' = FALSE
            /\ UNCHANGED <<epubIdx, translatedEpub>>

\* line 1105-1113 and 691-701: translateCurrentFile catches its own error
\* (the cancellation error of 939 and 966 included) and returns normally;
\* translatedEpub is set, so the EPUB is pushed and marked completed
MultiCaught ==
    /\ MultiNext([fileStatus EXCEPT ![epubIdx] = "completed"], FALSE, "hidden", downloadShown)
    /\ UNCHANGED progressStatus

\* line 677-682: the next EPUB is marked as being processed
MultiFileStart ==
    /\ runMode = "multi"
    /\ runPc = "fileStart"
    /\ fileStatus' = [fileStatus EXCEPT ![epubIdx] = "processing"]
    /\ runPc' = "processing"
    /\ UNCHANGED <<shouldCancel, runMode, isTranslating, cancelBtn, numHtml, epubIdx, fileIdx,
                   docState, translatedEpub, progressStatus, downloadShown, cancelledWhileTranslating>>

\* line 684 and 903-927: processFile has parsed the EPUB, translateCurrentFile starts
MultiProcessOk ==
    /\ runMode = "multi"
    /\ runPc = "processing"
    /\ runPc' = "counting"
    /\ UNCHANGED <<shouldCancel, runMode, isTranslating, cancelBtn, numHtml, epubIdx, fileIdx,
                   docState, translatedEpub, fileStatus, progressStatus, downloadShown,
                   cancelledWhileTranslating>>

\* line 684 and 702-706: processFile throws, the EPUB is marked failed
MultiProcessFails ==
    /\ runMode = "multi"
    /\ runPc = "processing"
    /\ MultiNext([fileStatus EXCEPT ![epubIdx] = "failed"], isTranslating, cancelBtn, downloadShown)
    /\ UNCHANGED <<shouldCancel, runMode, numHtml, docState, progressStatus, cancelledWhileTranslating>>

\* line 911-931: the characters are counted, the output archive is created
MultiCounted ==
    /\ runMode = "multi"
    /\ runPc = "counting"
    /\ translatedEpub' = "zip"
    /\ fileIdx' = 1
    /\ runPc' = "loopTop"
    /\ UNCHANGED <<shouldCancel, runMode, isTranslating, cancelBtn, numHtml, epubIdx, docState,
                   fileStatus, progressStatus, downloadShown, cancelledWhileTranslating>>

\* line 935-944 and 1085-1103: top of the file loop of translateCurrentFile:
\* past the last file the EPUB completes, with the flag set the loop throws
MultiLoopTop ==
    /\ runMode = "multi"
    /\ runPc = "loopTop"
    /\ IF fileIdx > FilesInEpub
       THEN /\ progressStatus' = "complete"
            /\ MultiNext([[fileStatus EXCEPT ![1] = "completed"] EXCEPT ![epubIdx] = "completed"],
                         FALSE, "hidden", TRUE)
       ELSE IF shouldCancel
       THEN MultiCaught
       ELSE /\ runPc' = "reading"
            /\ UNCHANGED <<isTranslating, cancelBtn, epubIdx, fileIdx, translatedEpub, fileStatus,
                           progressStatus, downloadShown>>
    /\ UNCHANGED <<shouldCancel, runMode, numHtml, docState, cancelledWhileTranslating>>

\* line 944-952 and 1000-1083: the file is read; for an HTML document
\* translateText is called, another file is copied
MultiRead ==
    /\ runMode = "multi"
    /\ runPc = "reading"
    /\ IF fileIdx <= numHtml
       THEN runPc' = "translating" /\ progressStatus' = "translating" /\ UNCHANGED fileIdx
       ELSE runPc' = "loopTop" /\ fileIdx' = fileIdx + 1 /\ UNCHANGED progressStatus
    /\ UNCHANGED <<shouldCancel, runMode, isTranslating, cancelBtn, numHtml, epubIdx, docState,
                   translatedEpub, fileStatus, downloadShown, cancelledWhileTranslating>>

\* line 952-999: translateText has returned; the flag is read again
MultiTranslated ==
    /\ runMode = "multi"
    /\ runPc = "translating"
    /\ IF shouldCancel
       THEN MultiCaught
       ELSE /\ runPc' = "loopTop"
            /\ fileIdx' = fileIdx + 1
            /\ UNCHANGED <<isTranslating, cancelBtn, epubIdx, translatedEpub, fileStatus,
                           progressStatus, downloadShown>>
    /\ UNCHANGED <<shouldCancel, runMode, numHtml, docState, cancelledWhileTranslating>>

\* line 2426 and 1105-1113: translateText throws (no API key)
MultiTranslateThrows ==
    /\ runMode = "multi"
    /\ runPc = "translating"
    /\ MultiCaught
    /\ UNCHANGED <<shouldCancel, runMode, numHtml, docState, cancelledWhileTranslating>>

(***************************************************************************)
(* The retry loop of one batch task: app.js 2711-2918 (translateWithZhipuAI)*)
(* and 3588-3739 (translateWithOpenRouter).                                *)
(***************************************************************************)
Backends == {"zhipu", "openrouter"}

\* what an attempt can throw inside the try block: fetch rejects, the 120 s
\* timer aborts it, status 401, another non-success status, a body without a
\* completion
ErrorKinds == {"network", "timeout", "auth", "status", "malformed"}

RECURSIVE Pow2(_)
Pow2(n) == IF n <= 0 THEN 1 ELSE 2 * Pow2(n - 1)

\* line 2913: Math.min(500 * Math.pow(2, retries - 1), 2000)
ZhipuBackoffDelay(r) == Min(500 * Pow2(r - 1), 2000)
\* line 3737: 1000 * retries
OpenRouterBackoffDelay(r) == 1000 * r
BackoffDelay(b, r) == IF b = "zhipu" THEN ZhipuBackoffDelay(r) ELSE OpenRouterBackoffDelay(r)

RetryIdle ==
    /\ backend = "none"
    /\ retries = 0
    /\ attemptPc = "idle"
    /\ attempts = 0
    /\ waits = <<>>
    /\ errors = <<>>
    /\ outcome = "pending"

\* line 2711-2712: let retries = 0; while (retries < maxRetries)
RetryInit ==
    /\ backend \in Backends
    /\ retries = 0
    /\ attemptPc = "loopTop"
    /\ attempts = 0
    /\ waits = <<>>
    /\ errors = <<>>
    /\ outcome = "pending"

\* line 2715-2734: the cache holds a result for the batch text: it is
\* assigned and the task returns success without a request
AttemptCacheHit ==
    /\ attemptPc = "loopTop"
    /\ retries < maxRetries
    /\ attemptPc' = "returned"
    /\ outcome' = "success"
    /\ UNCHANGED <<backend, retries, attempts, waits, errors>>

\* line 2763-2781: no cached result: the request is sent
AttemptSend ==
    /\ attemptPc = "loopTop"
    /\ retries < maxRetries
    /\ attemptPc' = "inflight"
    /\ attempts' = attempts + 1
    /\ UNCHANGED <<backend, retries, waits, errors, outcome>>

\* line 2796-2905: a completion came back; it is cached and reconciled
AttemptSucceeds ==
    /\ attemptPc = "inflight"
    /\ attemptPc' = "returned"
    /\ outcome' = "success"
    /\ UNCHANGED <<backend, retries, attempts, waits, errors>>

\* the catch block without the test of line 2909: it always waits and goes round
CatchWithoutLimit(kind) ==
    /\ retries' = retries + 1
    /\ errors' = Append(errors, kind)
    /\ attemptPc' = "backoff"
    /\ waits' = Append(waits, BackoffDelay(backend, retries + 1))
    /\ UNCHANGED outcome

\* line 2907-2915 and 3729-3738: the catch block
CatchAttemptError(kind) ==
    /\ retries' = retries + 1
    /\ errors' = Append(errors, kind)
    /\ IF retries + 1 >= maxRetries
       THEN /\ attemptPc' = "returned"
            /\ outcome' = "failure"
            /\ UNCHANGED waits
       ELSE /\ attemptPc' = "backoff"
            /\ waits' = Append(waits, BackoffDelay(backend, retries + 1))
            /\ UNCHANGED outcome

\* line 2763-2801: the attempt throws inside the try block
AttemptThrows ==
    /\ attemptPc = "inflight"
    /\ \E kind \in ErrorKinds : CatchAttemptError(kind)
    /\ UNCHANGED <<backend, attempts>>

\* line 2914 and 2712: the delay has passed, the loop condition is tested again
BackoffElapsed ==
    /\ attemptPc = "backoff"
    /\ IF retries < maxRetries
       THEN attemptPc' = "loopTop" /\ UNCHANGED outcome
       ELSE attemptPc' = "returned" /\ outcome' = "failure"
    /\ UNCHANGED <<backend, retries, attempts, waits, errors>>

(***************************************************************************)
(* The grouper: app.js 2613-2667 (translateWithZhipuAI); 3490-3544         *)
(* (translateWithOpenRouter) is the same code.  It reads only the length   *)
(* of each fragment's text, so a fragment is its index and its length.     *)
(***************************************************************************)
\* line 2614, 2615, 2648
TARGET_MIN_LENGTH == 300
TARGET_MAX_LENGTH == 500
MaxBatchCount == 8

MaxFragments == 9
FragmentLengths == {1, 250, 500, 501}

\* line 2630: currentBatch.map(p => p.originalText).join('\n\n').length
CombinedLength(batch) ==
    LET RECURSIVE Sum(_)
        Sum(k) == IF k = 0 THEN 0 ELSE paragraphLens[batch[k]] + Sum(k - 1)
    IN  IF Len(batch) = 0 THEN 0 ELSE Sum(Len(batch)) + 2 * (Len(batch) - 1)

\* what is lost when the accumulated batch is not saved
DropCurrent(gs, batch) == gs

\* line 2627-2635 and 2659-2665: the accumulated batch, if any, is saved
FlushCurrent(gs, batch) == IF Len(batch) > 0 THEN Append(gs, batch) ELSE gs

GrouperIdle ==
    /\ paragraphLens = <<>>
    /\ groupPos = 0
    /\ groupedParagraphs = <<>>
    /\ currentBatch = <<>>
    /\ currentLength = 0

\* line 2594 and 2613-2620: a document with at least one fragment
GrouperInit ==
    /\ \E n \in 1..MaxFragments : paragraphLens \in [1..n -> FragmentLengths]
    /\ groupPos = 1
    /\ groupedParagraphs = <<>>
    /\ currentBatch = <<>>
    /\ currentLength = 0

\* line 2625-2641: a fragment longer than TARGET_MAX_LENGTH: the accumulated
\* batch is saved, then the fragment as a batch of its own
GroupOversized ==
    /\ groupPos <= Len(paragraphLens)
    /\ paragraphLens[groupPos] > TARGET_MAX_LENGTH
    /\ groupedParagraphs' = Append(FlushCurrent(groupedParagraphs, currentBatch), <<groupPos>>)
    /\ currentBatch' = <<>>
    /\ currentLength' = 0
    /\ groupPos' = groupPos + 1
    /\ UNCHANGED paragraphLens

\* an accumulation that looks at the length only
GroupAccumulateByLength ==
    /\ groupPos <= Len(paragraphLens)
    /\ paragraphLens[groupPos] <= TARGET_MAX_LENGTH
    /\ IF currentLength + paragraphLens[groupPos] >= TARGET_MIN_LENGTH
       THEN /\ groupedParagraphs' = Append(groupedParagraphs, Append(currentBatch, groupPos))
            /\ currentBatch' = <<>>
            /\ currentLength' = 0
       ELSE /\ currentBatch' = Append(currentBatch, groupPos)
            /\ currentLength' = currentLength + paragraphLens[groupPos]
            /\ UNCHANGED groupedParagraphs
    /\ groupPos' = groupPos + 1
    /\ UNCHANGED paragraphLens

\* line 2642-2657: another fragment is accumulated; the batch is saved when
\* the sum of lengths reaches TARGET_MIN_LENGTH or it has 8 fragments
GroupAccumulate ==
    /\ groupPos <= Len(paragraphLens)
    /\ paragraphLens[groupPos] <= TARGET_MAX_LENGTH
    /\ IF currentLength + paragraphLens[groupPos] >= TARGET_MIN_LENGTH
          \/ Len(currentBatch) + 1 >= MaxBatchCount
       THEN /\ groupedParagraphs' = Append(groupedParagraphs, Append(currentBatch, groupPos))
            /\ currentBatch' = <<>>
            /\ currentLength' = 0
       ELSE /\ currentBatch' = Append(currentBatch, groupPos)
            /\ currentLength' = currentLength + paragraphLens[groupPos]
            /\ UNCHANGED groupedParagraphs
    /\ groupPos' = groupPos + 1
    /\ UNCHANGED paragraphLens

\* line 2659-2666: after the loop the rest is saved
GroupRest ==
    /\ groupPos = Len(paragraphLens) + 1
    /\ groupedParagraphs' = FlushCurrent(groupedParagraphs, currentBatch)
    /\ currentBatch' = <<>>
    /\ currentLength' = 0
    /\ groupPos' = groupPos + 1
    /\ UNCHANGED paragraphLens

GrouperDone == groupPos = Len(paragraphLens) + 2

(***************************************************************************)
(* Extraction (app.js 2436-2571) and the rewrite stage (3065-3160) on a    *)
(* parsed document.  The document is the sequence of the nodes under       *)
(* doc.body in document order; a node has a kind and a parent (0 is        *)
(* doc.body).  "block" is an element whose tag is in BLOCK_TAGS (line 84), *)
(* "inline" any other element, "script" a script or style element, "br" a  *)
(* <br>, "text" a text node with non-whitespace text and "blank" a         *)
(* whitespace-only text node.                                              *)
(***************************************************************************)
DomKinds == {"text", "blank", "block", "inline", "br", "script"}
DomElements == {"block", "inline", "script"}

\* the text of a text node: a word naming the node, followed by a space
NodeText(d, i) ==
    CASE d[i].kind = "text" -> <<"w", Digit(i), " ">>
      [] d[i].kind = "blank" -> <<" ">>
      [] OTHER -> <<>>

\* node i lies inside element e
RECURSIVE IsUnder(_, _, _)
IsUnder(d, i, e) ==
    /\ d[i].parent # 0
    /\ (d[i].parent = e \/ IsUnder(d, d[i].parent, e))

\* the well-formed documents of up to MaxNodes nodes: a node's parent is an
\* element that is still open when the node starts; script holds text only
DomTrees ==
    UNION { { d \in [1..n -> [kind : DomKinds, parent : 0..(n - 1)]] :
                \A i \in 1..n :
                    /\ d[i].parent < i
                    /\ d[i].parent # 0 =>
                          /\ d[d[i].parent].kind \in DomElements
                          /\ d[d[i].parent].kind = "script" => d[i].kind = "text"
                          /\ d[i].parent = i - 1 \/ IsUnder(d, i - 1, d[i].parent) }
            : n \in 1..MaxNodes }

\* Node.textContent of the text children only
RECURSIVE directTextFrom(_, _, _)
directTextFrom(d, e, i) ==
    IF i > Len(d) THEN <<>>
    ELSE (IF d[i].parent = e THEN NodeText(d, i) ELSE <<>>) \o directTextFrom(d, e, i + 1)
directText(d, e) == directTextFrom(d, e, 1)

\* Node.textContent: the text of all text nodes inside e, in document order
RECURSIVE textContentFrom(_, _, _)
textContentFrom(d, e, i) ==
    IF i > Len(d) THEN <<>>
    ELSE (IF IsUnder(d, i, e) THEN NodeText(d, i) ELSE <<>>) \o textContentFrom(d, e, i + 1)
textContent(d, e) == textContentFrom(d, e, 1)

\* line 2440-2453: acceptNode
acceptNode(d, i) ==
    /\ d[i].kind = "text"
    /\ ~(d[i].parent # 0 /\ d[d[i].parent].kind = "script")

\* line 2465-2477: the nearest ancestor with a block tag, 0 when there is none
RECURSIVE BlockAbove(_, _)
BlockAbove(d, e) ==
    IF e = 0 THEN 0
    ELSE IF d[e].kind = "block" THEN e
    ELSE BlockAbove(d, d[e].parent)
NearestBlock(d, i) == BlockAbove(d, d[i].parent)

\* line 2485: element.innerHTML.includes('<br')
hasBrTags(d, e) == \E i \in 1..Len(d) : d[i].kind = "br" /\ IsUnder(d, i, e)

\* Array.from(element.childNodes)
childNodes(d, e) == SortedSeq({i \in 1..Len(d) : d[i].parent = e})

\* line 2494-2528: the fragments of a block with <br>: the loop over the
\* child nodes with currentText, and the last fragment
RECURSIVE subParagraphs(_, _, _)
subParagraphs(d, kids, currentText) ==
    IF kids = <<>>
    THEN IF Trim(currentText) # <<>> THEN <<Trim(currentText)>> ELSE <<>>
    ELSE LET c == Head(kids)
         IN  CASE d[c].kind \in {"text", "blank"} ->
                    subParagraphs(d, Tail(kids),
                        IF Trim(NodeText(d, c)) # <<>> THEN currentText \o NodeText(d, c) ELSE currentText)
               [] d[c].kind = "br" ->
                    IF Trim(currentText) # <<>>
                    THEN <<Trim(currentText)>> \o subParagraphs(d, Tail(kids), <<>>)
                    ELSE subParagraphs(d, Tail(kids), currentText)
               [] OTHER ->
                    subParagraphs(d, Tail(kids),
                        IF Trim(textContent(d, c)) # <<>> THEN currentText \o textContent(d, c) ELSE currentText)

\* a paragraph object; anchor is paragraph.element of a block paragraph and
\* paragraph.textNode of a loose text node (textNode is 0 when absent)
DomPara(a, node, text) ==
    [anchor |-> a, isInline |-> node # 0, textNode |-> node,
     originalText |-> text, translatedText |-> Undefined]

\* line 2480-2557: the paragraphs of a block element met for the first time
BlockParas(d, e) ==
    IF hasBrTags(d, e) /\ Len(Trim(textContent(d, e))) >= 1
    THEN [k \in 1..Len(subParagraphs(d, childNodes(d, e), <<>>)) |->
             DomPara(e, 0, subParagraphs(d, childNodes(d, e), <<>>)[k])]
    ELSE IF Len(Trim(textContent(d, e))) >= 1
    THEN <<DomPara(e, 0, Trim(textContent(d, e)))>>
    ELSE <<>>

\* the content of a node no write has touched
NotWritten == [written |-> FALSE, hasBr |-> FALSE, pieces |-> <<>>]

DomIdle ==
    /\ dom = <<>>
    /\ exPos = 0
    /\ processedElements = {}
    /\ exParas = <<>>
    /\ dIdx = 0
    /\ dReplaced = {}
    /\ dWritten = <<>>
    /\ detached = {}

\* line 2430-2458: a document was parsed; the walker stands before its first node
DomInit ==
    /\ dom \in DomTrees
    /\ exPos = 1
    /\ processedElements = {}
    /\ exParas = <<>>
    /\ dIdx = 0
    /\ dReplaced = {}
    /\ dWritten = [i \in DOMAIN dom |-> NotWritten]
    /\ detached = {}

\* the walker passes a node that is no text node or that acceptNode rejects
ExtractReject ==
    /\ exPos \in 1..Len(dom)
    /\ ~acceptNode(dom, exPos)
    /\ exPos' = exPos + 1
    /\ UNCHANGED <<dom, processedElements, exParas, dIdx, dReplaced, dWritten, detached>>

\* line 2480-2557: the text node's nearest block element is met for the first time
ExtractBlock ==
    /\ exPos \in 1..Len(dom)
    /\ acceptNode(dom, exPos)
    /\ NearestBlock(dom, exPos) # 0
    /\ NearestBlock(dom, exPos) \notin processedElements
    /\ processedElements' = processedElements \cup {NearestBlock(dom, exPos)}
    /\ exParas' = exParas \o BlockParas(dom, NearestBlock(dom, exPos))
    /\ exPos' = exPos + 1
    /\ UNCHANGED <<dom, dIdx, dReplaced, dWritten, detached>>

\* line 2480: the nearest block element was processed before: nothing is added
ExtractCovered ==
    /\ exPos \in 1..Len(dom)
    /\ acceptNode(dom, exPos)
    /\ NearestBlock(dom, exPos) \in processedElements
    /\ exPos' = exPos + 1
    /\ UNCHANGED <<dom, processedElements, exParas, dIdx, dReplaced, dWritten, detached>>

\* line 2558-2569: no block element above: the text node is a paragraph
ExtractLoose ==
    /\ exPos \in 1..Len(dom)
    /\ acceptNode(dom, exPos)
    /\ NearestBlock(dom, exPos) = 0
    /\ exParas' = Append(exParas, DomPara(exPos, exPos, Trim(NodeText(dom, exPos))))
    /\ exPos' = exPos + 1
    /\ UNCHANGED <<dom, processedElements, dIdx, dReplaced, dWritten, detached>>

ExtractionDone == exPos > Len(dom) /\ dom # <<>>

\* line 2603-3060: the batches and the retry pass have run: some paragraphs
\* have a translation, the others none; the rewrite stage starts
DomTranslate ==
    /\ ExtractionDone
    /\ dIdx = 0
    /\ exParas # <<>>
    /\ \E T \in SUBSET (1..Len(exParas)) :
          exParas' = [k \in 1..Len(exParas) |->
                         IF k \in T
                         THEN [exParas[k] EXCEPT !.translatedText = TranslatedAs(exParas[k].originalText)]
                         ELSE exParas[k]]
    /\ dIdx' = 1
    /\ UNCHANGED <<dom, exPos, processedElements, dReplaced, dWritten, detached>>

\* line 3124: para.element.innerHTML.includes('<br') when the element is
\* written: a <br> still inside it, or one put there by an earlier write
InnerHasBr(e) ==
    \E i \in 1..Len(dom) :
        /\ IsUnder(dom, i, e)
        /\ i \notin detached
        /\ \/ dom[i].kind = "br"
           \/ dWritten[i].written /\ dWritten[i].hasBr

\* line 3093-3096: para.textNode.textContent = para.translatedText
DomRewriteTextNode ==
    /\ dIdx \in 1..Len(exParas)
    /\ IsTranslated(exParas[dIdx])
    /\ exParas[dIdx].isInline
    /\ dWritten' = [dWritten EXCEPT ![exParas[dIdx].textNode] =
                       [written |-> TRUE, hasBr |-> FALSE, pieces |-> <<exParas[dIdx].translatedText>>]]
    /\ dIdx' = dIdx + 1
    /\ UNCHANGED <<dom, exPos, processedElements, exParas, dReplaced, detached>>

\* line 3110-3144: a block element not written yet: innerHTML or textContent
\* is assigned, which removes every node the element held
DomRewriteElement ==
    /\ dIdx \in 1..Len(exParas)
    /\ IsTranslated(exParas[dIdx])
    /\ ~exParas[dIdx].isInline
    /\ exParas[dIdx].anchor \notin dReplaced
    /\ dReplaced' = dReplaced \cup {exParas[dIdx].anchor}
    /\ dWritten' = [dWritten EXCEPT ![exParas[dIdx].anchor] =
                       [written |-> TRUE] @@
                       BlockContent([hasBr |-> InnerHasBr(exParas[dIdx].anchor)], exParas[dIdx],
                                    elementTranslations(exParas, exParas[dIdx].anchor))]
    /\ detached' = detached \cup {i \in 1..Len(dom) : IsUnder(dom, i, exParas[dIdx].anchor)}
    /\ dIdx' = dIdx + 1
    /\ UNCHANGED <<dom, exPos, processedElements, exParas>>

\* line 3112-3115: the element was written already
DomRewriteSkipReplaced ==
    /\ dIdx \in 1..Len(exParas)
    /\ IsTranslated(exParas[dIdx])
    /\ ~exParas[dIdx].isInline
    /\ exParas[dIdx].anchor \in dReplaced
    /\ dIdx' = dIdx + 1
    /\ UNCHANGED <<dom, exPos, processedElements, exParas, dReplaced, dWritten, detached>>

\* line 3154-3159: the paragraph has no translation
DomRewriteSkipUntranslated ==
    /\ dIdx \in 1..Len(exParas)
    /\ ~IsTranslated(exParas[dIdx])
    /\ dIdx' = dIdx + 1
    /\ UNCHANGED <<dom, exPos, processedElements, exParas, dReplaced, dWritten, detached>>

DomRewriteDone == dIdx > Len(exParas)

\* text t occurs in text s
Contains(s, t) == \E j \in 0..(Len(s) - Len(t)) : SubSeq(s, j + 1, j + Len(t)) = t

(***************************************************************************)
(* Progress reporting.  updateProgress (app.js 4182-4186) writes a percent *)
(* to the progress display.  It is called by the file loops of             *)
(* handleTranslate (2066, 2099, 2270) and translateCurrentFile (949, 990,  *)
(* 1085) with translatedChars / totalCharsToTranslate, and by the batch    *)
(* loop of the translation pipeline (2943-2944, 3764-3765) with            *)
(* batchEnd / groupedParagraphs.length.  HTML file f holds FileChars(f)    *)
(* characters.                                                             *)
(***************************************************************************)
ProgFileIds == 1..ProgFiles
FileChars(f) == f
RECURSIVE CharsUpTo(_)
CharsUpTo(n) == IF n = 0 THEN 0 ELSE FileChars(n) + CharsUpTo(n - 1)

\* Math.round((n / total) * 100)
RoundPercent(n, total) == (200 * n + total) \div (2 * total)

ProgIdle ==
    /\ progMode = "none"
    /\ progPc = "idle"
    /\ progEpub = 0
    /\ progFile = <<>>
    /\ translatedChars = 0
    /\ totalCharsToTranslate = 0
    /\ progressPercent = 0

\* line 1945-2038 (one EPUB) and 686-693, 911-927 (several): the counters are
\* reset and the characters counted; the display shows 0 (line 1122)
ProgInit ==
    /\ progMode \in {"single", "multi"}
    /\ progPc = "files"
    /\ progEpub = 1
    /\ progFile = [f \in ProgFileIds |-> "waiting"]
    /\ translatedChars = 0
    /\ totalCharsToTranslate = CharsUpTo(ProgFiles)
    /\ progressPercent = 0

\* line 2063-2066 and 942-949: a file's translation starts.  The files of one
\* EPUB of several are taken one after another, the files of a single EPUB
\* concurrently (CONCURRENT_FILES at a time)
ProgFileStart ==
    \E f \in ProgFileIds :
        /\ progPc = "files"
        /\ progFile[f] = "waiting"
        /\ progMode = "multi" =>
              /\ \A g \in ProgFileIds : g < f => progFile[g] = "done"
              /\ \A g \in ProgFileIds : progFile[g] \in {"waiting", "done"}
        /\ progressPercent' = RoundPercent(translatedChars, totalCharsToTranslate)
        /\ progFile' = [progFile EXCEPT ![f] = "translating"]
        /\ UNCHANGED <<progMode, progPc, progEpub, translatedChars, totalCharsToTranslate>>

\* line 2942-2944: the pipeline's batch loop has run: batchEnd is
\* groupedParagraphs.length (CONCURRENT_BATCHES is Infinity), the percent 100
ProgPipelineEmit ==
    \E f \in ProgFileIds :
        /\ progFile[f] = "translating"
        /\ progressPercent' = RoundPercent(1, 1)
        /\ progFile' = [progFile EXCEPT ![f] = "piped"]
        /\ UNCHANGED <<progMode, progPc, progEpub, translatedChars, totalCharsToTranslate>>

\* line 2594-2601: a document without paragraphs returns before the batch loop
ProgPipelineQuiet ==
    \E f \in ProgFileIds :
        /\ progFile[f] = "translating"
        /\ progFile' = [progFile EXCEPT ![f] = "piped"]
        /\ UNCHANGED <<progMode, progPc, progEpub, translatedChars, totalCharsToTranslate, progressPercent>>

\* line 2069-2099 and 953-990: translateText has returned: the file's
\* characters are added and the percent is written
ProgFileDone ==
    \E f \in ProgFileIds :
        /\ progFile[f] = "piped"
        /\ translatedChars' = translatedChars + FileChars(f)
        /\ progressPercent' = RoundPercent(translatedChars + FileChars(f), totalCharsToTranslate)
        /\ progFile' = [progFile EXCEPT ![f] = "done"]
        /\ UNCHANGED <<progMode, progPc, progEpub, totalCharsToTranslate>>

\* line 2270 and 1085: updateProgress('完成', 100) after the last file
ProgComplete ==
    /\ progPc = "files"
    /\ \A f \in ProgFileIds : progFile[f] = "done"
    /\ progressPercent' = 100
    /\ progPc' = IF progMode = "multi" /\ progEpub < NumEpubs THEN "completed" ELSE "ended"
    /\ UNCHANGED <<progMode, progEpub, progFile, translatedChars, totalCharsToTranslate>>

\* line 716-724, 686-693 and 911-927: processMultipleFiles resets the
\* counters for the next EPUB, whose characters are counted anew
ProgNextEpub ==
    /\ progPc = "completed"
    /\ progEpub' = progEpub + 1
    /\ translatedChars' = 0
    /\ totalCharsToTranslate' = CharsUpTo(ProgFiles)
    /\ progFile' = [f \in ProgFileIds |-> "waiting"]
    /\ progPc' = "files"
    /\ UNCHANGED <<progMode, progressPercent>>

(***************************************************************************)
(* The language check of handleTranslate (app.js 1872-1902) and the        *)
(* format-only path handleChineseToChineseConversion (4402-4574).          *)
(*                                                                         *)
(* The bytes of an archive entry are a sequence of units: "a" is UTF-8     *)
(* text, "BOM" the byte order mark EF BB BF, "bad" a byte sequence that is *)
(* not valid UTF-8 (a file stored in UTF-16, say), "FFFD" the UTF-8 form   *)
(* of U+FFFD, "v" a vertical-writing declaration (vertical-rl in HTML and  *)
(* CSS, page-progression-direction="rtl" in the OPF) and "h" its           *)
(* horizontal replacement.                                                 *)
(***************************************************************************)
Langs == {"zh", "en", "ja"}
EntryKinds == {"html", "opf", "css", "ncx", "other", "dir"}
EntryBytes == {<<"a">>, <<"BOM", "a">>, <<"bad", "a">>, <<"v", "a">>}
Entries ==
    {[kind |-> k, bytes |-> b] : k \in EntryKinds \ {"dir"}, b \in EntryBytes}
        \cup {[kind |-> "dir", bytes |-> <<>>]}
Archives == UNION {[1..n -> Entries] : n \in 1..MaxEntries}

\* new TextDecoder().decode(content): UTF-8, not fatal, the byte order mark
\* at the start is dropped and every invalid sequence becomes U+FFFD
TextDecode(bytes) ==
    LET body == IF Len(bytes) > 0 /\ bytes[1] = "BOM" THEN Tail(bytes) ELSE bytes
    IN  [i \in 1..Len(body) |-> IF body[i] = "bad" THEN "FFFD" ELSE body[i]]

\* translatedEpub.file(filename, string) stores the string as UTF-8
Utf8Encode(str) == str

\* line 1675-1683 and the replacements below them: only with the checkbox set
convertVerticalToHorizontal(str, checked) ==
    IF checked THEN [i \in 1..Len(str) |-> IF str[i] = "v" THEN "h" ELSE str[i]] ELSE str

\* line 4452-4546: what the loop writes for one entry that is not a directory
FormatEntry(e, checked) ==
    IF e.kind \in {"html", "opf", "css", "ncx"}
    THEN [kind |-> e.kind,
          bytes |-> Utf8Encode(convertVerticalToHorizontal(TextDecode(e.bytes), checked))]
    ELSE e

FilesOf(zip) ==
    LET IsFile(e) == e.kind # "dir"
    IN  SelectSeq(zip, IsFile)

FmtIdle ==
    /\ selSource = "none"
    /\ selTarget = "none"
    /\ convertChecked = FALSE
    /\ fmtPc = "idle"
    /\ epubFiles = <<>>
    /\ fmtOut = <<>>
    /\ fmtPos = 0
    /\ fmtCancel = FALSE
    /\ requests = 0

\* a loaded EPUB, a language pair and the checkbox, before the click
FmtInit ==
    /\ selSource \in Langs
    /\ selTarget \in Langs
    /\ convertChecked \in BOOLEAN
    /\ fmtPc = "ready"
    /\ epubFiles \in Archives
    /\ fmtOut = <<>>
    /\ fmtPos = 0
    /\ fmtCancel = FALSE
    /\ requests = 0

FmtUnchanged == UNCHANGED <<selSource, selTarget, convertChecked, epubFiles>>

\* line 1878-1891: zh to zh, no conversion asked, and the user declines
ClickDeclined ==
    /\ fmtPc = "ready"
    /\ selSource = "zh" /\ selTarget = "zh"
    /\ ~convertChecked
    /\ fmtPc' = "declined"
    /\ UNCHANGED <<fmtOut, fmtPos, fmtCancel, requests>>
    /\ FmtUnchanged

\* line 1878-1895 and 4404-4437: zh to zh; the conversion starts
\* (isTranslating = true, shouldCancel = false, translatedEpub = new JSZip())
ClickFormatOnly ==
    /\ fmtPc = "ready"
    /\ selSource = "zh" /\ selTarget = "zh"
    /\ fmtPc' = "formatting"
    /\ fmtOut' = <<>>
    /\ fmtPos' = 1
    /\ fmtCancel' = FALSE
    /\ UNCHANGED requests
    /\ FmtUnchanged

\* line 1899-1902: any other equal pair is refused
ClickRejected ==
    /\ fmtPc = "ready"
    /\ ~(selSource = "zh" /\ selTarget = "zh")
    /\ selSource = selTarget
    /\ fmtPc' = "rejected"
    /\ UNCHANGED <<fmtOut, fmtPos, fmtCancel, requests>>
    /\ FmtUnchanged

\* line 1904 onwards: the translation starts
ClickTranslate ==
    /\ fmtPc = "ready"
    /\ ~(selSource = "zh" /\ selTarget = "zh")
    /\ selSource # selTarget
    /\ fmtPc' = "translating"
    /\ fmtOut' = <<>>
    /\ fmtPos' = 1
    /\ fmtCancel' = FALSE
    /\ UNCHANGED requests
    /\ FmtUnchanged

\* handleCancel (565-572) while isTranslating
FmtCancel ==
    /\ fmtPc \in {"formatting", "translating"}
    /\ ~fmtCancel
    /\ fmtCancel' = TRUE
    /\ UNCHANGED <<fmtPc, fmtOut, fmtPos, requests>>
    /\ FmtUnchanged

\* line 4439-4449: the loop finds shouldCancel set
FormatCancelled ==
    /\ fmtPc = "formatting"
    /\ fmtPos <= Len(epubFiles)
    /\ fmtCancel
    /\ fmtPc' = "cancelled"
    /\ UNCHANGED <<fmtOut, fmtPos, fmtCancel, requests>>
    /\ FmtUnchanged

\* line 4451-4550: one entry of the loop
FormatCopyEntry ==
    /\ fmtPc = "formatting"
    /\ fmtPos <= Len(epubFiles)
    /\ ~fmtCancel
    /\ LET e == epubFiles[fmtPos]
       IN  fmtOut' = IF e.kind = "dir" THEN fmtOut
                     ELSE Append(fmtOut, FormatEntry(e, convertChecked))
    /\ fmtPos' = fmtPos + 1
    /\ UNCHANGED <<fmtPc, fmtCancel, requests>>
    /\ FmtUnchanged

\* line 4552-4565: the loop is over
FormatDone ==
    /\ fmtPc = "formatting"
    /\ fmtPos > Len(epubFiles)
    /\ fmtPc' = "done"
    /\ UNCHANGED <<fmtOut, fmtPos, fmtCancel, requests>>
    /\ FmtUnchanged

\* line 2042-2105, 2763: an HTML entry is translated with one backend
\* request; every other entry is written without one
TranslateEntry ==
    /\ fmtPc = "translating"
    /\ fmtPos <= Len(epubFiles)
    /\ ~fmtCancel
    /\ LET e == epubFiles[fmtPos]
       IN  /\ requests' = IF e.kind = "html" THEN requests + 1 ELSE requests
           /\ fmtOut' = IF e.kind = "dir" THEN fmtOut
                        ELSE Append(fmtOut, [kind |-> e.kind, bytes |-> Utf8Encode(TextDecode(e.bytes))])
    /\ fmtPos' = fmtPos + 1
    /\ UNCHANGED <<fmtPc, fmtCancel>>
    /\ FmtUnchanged

\* line 2270-2290 (finished) and 2050-2058 (cancelled)
TranslateEnd ==
    /\ fmtPc = "translating"
    /\ fmtPos > Len(epubFiles) \/ fmtCancel
    /\ fmtPc' = IF fmtCancel /\ fmtPos <= Len(epubFiles) THEN "cancelled" ELSE "done"
    /\ UNCHANGED <<fmtOut, fmtPos, fmtCancel, requests>>
    /\ FmtUnchanged

GateInit ==
    /\ running = 0
    /\ queue = <<>>
    /\ wakeups = <<>>
    /\ gate = [c \in GateCallers |-> "idle"]

GateIdle ==
    /\ running = 0
    /\ queue = <<>>
    /\ wakeups = <<>>
    /\ gate = <<>>

AcquireCall == \E c \in GateCallers : gate[c] = "idle" /\ GateAcquire(c)
Resume == \E c \in GateCallers : GateResume(c)
TaskReturns == \E c \in GateCallers : GateSettle(c, TRUE)
TaskThrows == \E c \in GateCallers : GateSettle(c, FALSE)
Release == \E c \in GateCallers : GateRelease(c)

(***************************************************************************)
(* Specifications.  Each one runs one part; the other parts stay idle.     *)
(***************************************************************************)
GateFrame == UNCHANGED <<cacheVars, recVars, rwVars, pipeVars, runVars, retryVars, grouperVars, domVars, progVars, fmtVars>>
SpecGateInit == GateInit /\ CacheIdle /\ RecIdle /\ RwIdle /\ PipeIdle /\ RunIdle /\ RetryIdle /\ GrouperIdle /\ DomIdle /\ ProgIdle /\ FmtIdle
SpecGateNext ==
    \/ AcquireCall /\ GateFrame
    \/ Resume /\ GateFrame
    \/ TaskReturns /\ GateFrame
    \/ TaskThrows /\ GateFrame
    \/ Release /\ GateFrame
SpecGate == SpecGateInit /\ [][SpecGateNext]_vars

\* The gate with its scheduling.  The continuation of a woken waiter and the
\* finally block of a finished task are pending microtasks: they run.  That
\* every started task finishes is the hypothesis under which the gate's
\* progress is stated.  Nothing obliges a caller to call acquire.
GateFairness ==
    \A c \in GateCallers :
        /\ WF_vars(GateResume(c) /\ GateFrame)
        /\ WF_vars(GateRelease(c) /\ GateFrame)
        /\ WF_vars((GateSettle(c, TRUE) \/ GateSettle(c, FALSE)) /\ GateFrame)
SpecGateLive == SpecGateInit /\ [][SpecGateNext]_vars /\ GateFairness

CacheFrame == UNCHANGED <<gateVars, recVars, rwVars, pipeVars, runVars, retryVars, grouperVars, domVars, progVars, fmtVars>>
SpecCacheInit == CacheInit /\ GateIdle /\ RecIdle /\ RwIdle /\ PipeIdle /\ RunIdle /\ RetryIdle /\ GrouperIdle /\ DomIdle /\ ProgIdle /\ FmtIdle
SpecCacheNext ==
    \/ AddToCache /\ CacheFrame
    \/ GetFromCache /\ CacheFrame
SpecCache == SpecCacheInit /\ [][SpecCacheNext]_vars

RecFrame == UNCHANGED <<gateVars, cacheVars, rwVars, pipeVars, runVars, retryVars, grouperVars, domVars, progVars, fmtVars>>
SpecReconcileInit == RecInit /\ GateIdle /\ CacheIdle /\ RwIdle /\ PipeIdle /\ RunIdle /\ RetryIdle /\ GrouperIdle /\ DomIdle /\ ProgIdle /\ FmtIdle
SpecReconcileNext ==
    \/ ReconcileZhipuFresh /\ RecFrame
    \/ ReconcileCacheHit /\ RecFrame
    \/ ReconcileOpenRouterFresh /\ RecFrame
SpecReconcile == SpecReconcileInit /\ [][SpecReconcileNext]_vars

RwFrame == UNCHANGED <<gateVars, cacheVars, recVars, pipeVars, runVars, retryVars, grouperVars, domVars, progVars, fmtVars>>
SpecRewriteInit == RwInit /\ GateIdle /\ CacheIdle /\ RecIdle /\ PipeIdle /\ RunIdle /\ RetryIdle /\ GrouperIdle /\ DomIdle /\ ProgIdle /\ FmtIdle
SpecRewriteNext ==
    \/ RewriteTextNode /\ RwFrame
    \/ RewriteElement /\ RwFrame
    \/ RewriteSkipReplaced /\ RwFrame
    \/ RewriteSkipUntranslated /\ RwFrame
SpecRewrite == SpecRewriteInit /\ [][SpecRewriteNext]_vars

PipeFrame == UNCHANGED <<recVars, rwVars, runVars, retryVars, grouperVars, domVars, progVars, fmtVars>>
SpecPipelineInit == PipeInit /\ RecIdle /\ RwIdle /\ RunIdle /\ RetryIdle /\ GrouperIdle /\ DomIdle /\ ProgIdle /\ FmtIdle
SpecPipelineNext ==
    \/ Cancel /\ PipeFrame
    \/ DocStart /\ PipeFrame
    \/ DispatchOne /\ PipeFrame
    \/ TaskResume /\ PipeFrame
    \/ ResponseOk /\ PipeFrame
    \/ Response401 /\ PipeFrame
    \/ ResponseError /\ PipeFrame
    \/ BackoffOver /\ PipeFrame
    \/ TaskRelease /\ PipeFrame
    \/ AfterAll /\ PipeFrame
    \/ RetryOk /\ PipeFrame
    \/ RetryEmpty /\ PipeFrame
    \/ RetryError /\ PipeFrame
SpecPipeline == SpecPipelineInit /\ [][SpecPipelineNext]_vars

\* The pipeline with its scheduling.  Pending microtasks run (the synchronous
\* map of the dispatch loop, a woken waiter's continuation, a finally block,
\* the continuation of Promise.all) and a backoff timer fires.  That every
\* request in flight is answered, fails or is aborted by its timer (2760,
\* 3009) is the hypothesis under which termination is stated.  Nothing
\* obliges the user to cancel.
PipeFairness ==
    /\ WF_vars(DocStart /\ PipeFrame)
    /\ WF_vars(DispatchOne /\ PipeFrame)
    /\ WF_vars((TaskResume \/ TaskRelease \/ AfterAll) /\ PipeFrame)
    /\ WF_vars(BackoffOver /\ PipeFrame)
    /\ WF_vars((ResponseOk \/ Response401 \/ ResponseError) /\ PipeFrame)
    /\ WF_vars((RetryOk \/ RetryEmpty \/ RetryError) /\ PipeFrame)
\* one document (translateText called once) with its three batches
SpecPipelineLiveInit == SpecPipelineInit /\ Len(groups) = 1 /\ Len(groups[1]) = 3
SpecPipelineLive == SpecPipelineLiveInit /\ [][SpecPipelineNext]_vars /\ PipeFairness

RunFrame == UNCHANGED <<gateVars, cacheVars, recVars, rwVars, PipeRest, retryVars, grouperVars, domVars, progVars, fmtVars>>
SpecRunInit == RunIdle /\ GateIdle /\ CacheIdle /\ RecIdle /\ RwIdle /\ PipeIdle /\ RetryIdle /\ GrouperIdle /\ DomIdle /\ ProgIdle /\ FmtIdle
SpecRunNext ==
    \/ StartRun /\ RunFrame
    \/ HandleCancel /\ RunFrame
    \/ SingleCounted /\ RunFrame
    \/ SingleGroupTop /\ RunFrame
    \/ SingleDocRead /\ RunFrame
    \/ SingleDocTranslated /\ RunFrame
    \/ SingleDocThrows /\ RunFrame
    \/ SingleGroupDone /\ RunFrame
    \/ SingleComplete /\ RunFrame
    \/ MultiFileStart /\ RunFrame
    \/ MultiProcessOk /\ RunFrame
    \/ MultiProcessFails /\ RunFrame
    \/ MultiCounted /\ RunFrame
    \/ MultiLoopTop /\ RunFrame
    \/ MultiRead /\ RunFrame
    \/ MultiTranslated /\ RunFrame
    \/ MultiTranslateThrows /\ RunFrame
SpecRun == SpecRunInit /\ [][SpecRunNext]_vars

RetryFrame == UNCHANGED <<gateVars, cacheVars, recVars, rwVars, pipeVars, runVars, grouperVars, domVars, progVars, fmtVars>>
SpecRetryInit == RetryInit /\ GateIdle /\ CacheIdle /\ RecIdle /\ RwIdle /\ PipeIdle /\ RunIdle /\ GrouperIdle /\ DomIdle /\ ProgIdle /\ FmtIdle
SpecRetryNext ==
    \/ AttemptCacheHit /\ RetryFrame
    \/ AttemptSend /\ RetryFrame
    \/ AttemptSucceeds /\ RetryFrame
    \/ AttemptThrows /\ RetryFrame
    \/ BackoffElapsed /\ RetryFrame
SpecRetry == SpecRetryInit /\ [][SpecRetryNext]_vars

GrouperFrame == UNCHANGED <<gateVars, cacheVars, recVars, rwVars, pipeVars, runVars, retryVars, domVars, progVars, fmtVars>>
SpecGrouperInit == GrouperInit /\ GateIdle /\ CacheIdle /\ RecIdle /\ RwIdle /\ PipeIdle /\ RunIdle /\ RetryIdle /\ DomIdle /\ ProgIdle /\ FmtIdle
SpecGrouperNext ==
    \/ GroupOversized /\ GrouperFrame
    \/ GroupAccumulate /\ GrouperFrame
    \/ GroupRest /\ GrouperFrame
SpecGrouper == SpecGrouperInit /\ [][SpecGrouperNext]_vars

DomFrame == UNCHANGED <<gateVars, cacheVars, recVars, rwVars, pipeVars, runVars, retryVars, grouperVars, progVars, fmtVars>>
SpecDocumentInit == DomInit /\ GateIdle /\ CacheIdle /\ RecIdle /\ RwIdle /\ PipeIdle /\ RunIdle /\ RetryIdle /\ GrouperIdle /\ ProgIdle /\ FmtIdle
SpecDocumentNext ==
    \/ ExtractReject /\ DomFrame
    \/ ExtractBlock /\ DomFrame
    \/ ExtractCovered /\ DomFrame
    \/ ExtractLoose /\ DomFrame
    \/ DomTranslate /\ DomFrame
    \/ DomRewriteTextNode /\ DomFrame
    \/ DomRewriteElement /\ DomFrame
    \/ DomRewriteSkipReplaced /\ DomFrame
    \/ DomRewriteSkipUntranslated /\ DomFrame
SpecDocument == SpecDocumentInit /\ [][SpecDocumentNext]_vars

ProgFrame == UNCHANGED <<gateVars, cacheVars, recVars, rwVars, pipeVars, runVars, retryVars, grouperVars, domVars, fmtVars>>
SpecProgressInit == ProgInit /\ GateIdle /\ CacheIdle /\ RecIdle /\ RwIdle /\ PipeIdle /\ RunIdle /\ RetryIdle /\ GrouperIdle /\ DomIdle /\ FmtIdle
SpecProgressNext ==
    \/ ProgFileStart /\ ProgFrame
    \/ ProgPipelineEmit /\ ProgFrame
    \/ ProgPipelineQuiet /\ ProgFrame
    \/ ProgFileDone /\ ProgFrame
    \/ ProgComplete /\ ProgFrame
    \/ ProgNextEpub /\ ProgFrame
SpecProgress == SpecProgressInit /\ [][SpecProgressNext]_vars

FmtFrame == UNCHANGED <<gateVars, cacheVars, recVars, rwVars, pipeVars, runVars, retryVars, grouperVars, domVars, progVars>>
SpecLanguageInit == FmtInit /\ GateIdle /\ CacheIdle /\ RecIdle /\ RwIdle /\ PipeIdle /\ RunIdle /\ RetryIdle /\ GrouperIdle /\ DomIdle /\ ProgIdle
SpecLanguageNext ==
    \/ ClickDeclined /\ FmtFrame
    \/ ClickFormatOnly /\ FmtFrame
    \/ ClickRejected /\ FmtFrame
    \/ ClickTranslate /\ FmtFrame
    \/ FmtCancel /\ FmtFrame
    \/ FormatCancelled /\ FmtFrame
    \/ FormatCopyEntry /\ FmtFrame
    \/ FormatDone /\ FmtFrame
    \/ TranslateEntry /\ FmtFrame
    \/ TranslateEnd /\ FmtFrame
SpecLanguage == SpecLanguageInit /\ [][SpecLanguageNext]_vars

(***************************************************************************)
(* C1: the number of tasks started through the gate and not yet finished   *)
(* (and the running counter) never exceeds maxConcurrent.                  *)
(***************************************************************************)
C1_GateBound ==
    /\ running <= MaxConcurrent
    /\ Cardinality(GateStarted) <= MaxConcurrent

(***************************************************************************)
(* C9: cache keys are exact-text based: equal keys only for equal texts    *)
(* and language pairs, so getFromCache never returns a translation that    *)
(* addToCache stored for a different text.                                 *)
(***************************************************************************)
C9_KeysExact ==
    /\ \A t1 \in CacheTexts, t2 \in CacheTexts, l1 \in CacheLangs, l2 \in CacheLangs :
          getCacheKey(t1, l1[1], l1[2]) = getCacheKey(t2, l2[1], l2[2])
              => (t1 = t2 /\ l1 = l2)
    /\ (lastGet.called /\ lastGet.result # Absent) => lastGet.storedFor = lastGet.text

\* the second half alone: what a lookup returns was stored for the text looked up
C9_NoForeignHit ==
    (lastGet.called /\ lastGet.result # Absent) => lastGet.storedFor = lastGet.text

(***************************************************************************)
(* C6: when reconciliation yields N < expectedCount segments (either       *)
(* pipeline, fresh or cached response), fragments 0..N-1 get segments      *)
(* 0..N-1 and every other fragment of the batch ends with translatedText   *)
(* null and a non-empty skipReason.                                        *)
(***************************************************************************)
C6_ShortfallMarked ==
    (recPath # "none" /\ Len(RecLines) < recIn.expectedCount) =>
        \A k \in 1..recIn.expectedCount :
            IF k <= Len(RecLines)
            THEN recParas[k].translatedText = RecLines[k]
            ELSE /\ recParas[k].translatedText = Null
                 /\ recParas[k].skipReason # Null
                 /\ recParas[k].skipReason # <<>>

(***************************************************************************)
(* C7: when the chosen split has more segments than expectedCount, every   *)
(* fragment of the batch gets a non-empty join of consecutive segments,    *)
(* the per-fragment segment counts differ by at most one, and the          *)
(* fragments in order cover all segments in order.                         *)
(***************************************************************************)
RECURSIVE SumUpTo(_, _)
SumUpTo(f, k) == IF k = 0 THEN 0 ELSE f[k] + SumUpTo(f, k - 1)

EvenCover(ps, lines, expectedCount) ==
    \E counts \in [1..expectedCount -> 1..Len(lines)] :
        /\ SumUpTo(counts, expectedCount) = Len(lines)
        /\ \A i \in 1..expectedCount, j \in 1..expectedCount : counts[i] - counts[j] <= 1
        /\ \A k \in 1..expectedCount :
              ps[k].translatedText =
                  Join(SubSeq(lines, SumUpTo(counts, k - 1) + 1, SumUpTo(counts, k)), <<" ">>)

C7_ExcessMergedEvenly ==
    (recPath # "none" /\ Len(RecLines) > recIn.expectedCount) =>
        EvenCover(recParas, RecLines, recIn.expectedCount)

(***************************************************************************)
(* C8: when reconciliation yields at most expectedCount segments, fragment *)
(* i gets segment i of the chosen split for every i below the segment      *)
(* count, and the fragment of the other batch is not written.              *)
(***************************************************************************)
C8_Positional ==
    recPath # "none" =>
        /\ Len(RecLines) <= recIn.expectedCount =>
              \A k \in 1..Len(RecLines) : recParas[k].translatedText = RecLines[k]
        /\ recParas[recIn.expectedCount + 1].translatedText = recIn.other
        /\ recParas[recIn.expectedCount + 1].skipReason = Null

\* a shortfall of the fresh path with two different segments for three fragments
C8_Witness ==
    /\ recPath = "zhipuFresh"
    /\ recIn.expectedCount = 3
    /\ recIn.other = <<"b">>
    /\ Len(RecLines) = 2
    /\ RecLines[1] # RecLines[2]
    /\ recParas[3].translatedText = Null

(***************************************************************************)
(* C3: after the rewrite stage every fragment without a translation        *)
(* (translatedText absent or equal to originalText) still has its          *)
(* originalText in the document at its anchor, also when it shares the     *)
(* anchor with translated fragments.                                       *)
(***************************************************************************)
C3_UntranslatedKept ==
    RewriteDone =>
        \A k \in 1..Len(rwParas) :
            ~IsTranslated(rwParas[k]) =>
                HoldsText(rwDoc[rwParas[k].anchor], rwParas[k].originalText)

\* C2: every request in flight (batch request, retry-pass request) was issued
\* by a caller that holds a slot of the shared gate, so the number of requests
\* in flight never exceeds the gate's maximum.
C2_RequestsHoldSlot ==
    /\ \A r \in InFlight : r[1] = "batch" /\ gate[<<r[2], r[3]>>] = "running"
    /\ Cardinality(InFlight) <= MaxConcurrent

\* C4: once the cancellation flag is set no step sends a request: not for a
\* batch that waited in the gate's queue, not for a further attempt of a
\* failed batch, not in the retry pass; requests in flight may only complete.
C4_NoSendAfterCancel ==
    [][shouldCancel => InFlight' \subseteq InFlight]_vars

\* C10: once a batch request has been answered with status 401, that batch is
\* not attempted again and no other batch request is sent for the rest of
\* the run.
AuthFailed == \E c \in TaskIds : task[c].lastError = "auth"
C10_AuthHaltsDispatch ==
    [][AuthFailed => BatchRequests' \subseteq BatchRequests]_vars

\* C5: when the cancellation flag was set while a document was being
\* translated (dispatching, reconciling or retrying), the run never shows the
\* completed outcome: status complete at 100%, download area shown, file
\* marked completed.
CompletedOutcome ==
    /\ progressStatus = "complete"
    /\ downloadShown
    /\ \E i \in DOMAIN fileStatus : fileStatus[i] = "completed"
C5_CancelledNeverCompletes ==
    cancelledWhileTranslating => ~CompletedOutcome

\* C11: a batch task sends at most three requests; every error of an attempt
\* is caught (the task's promise never rejects); after the third failed
\* attempt the task has returned the failure result.
C11_BoundedAttempts ==
    /\ attempts <= maxRetries
    /\ Len(errors) = retries
    /\ outcome # "thrown"
    /\ retries >= maxRetries => attemptPc = "returned" /\ outcome = "failure"
C11_Witness ==
    /\ attempts = maxRetries
    /\ Len(errors) = maxRetries
    /\ outcome = "failure"

\* C12: in both pipelines the wait before attempt k+1 is min(500 * 2^(k-1),
\* 2000) ms, and a task whose third attempt succeeds after two errors returns
\* the success result.
C12_BackoffDoubling ==
    /\ \A k \in 1..Len(waits) : waits[k] = Min(500 * Pow2(k - 1), 2000)
    /\ attemptPc = "returned" /\ Len(errors) < maxRetries => outcome = "success"

\* C13: a batch request of translateWithZhipuAI that is reported as failed
\* has waited three times between its attempts: 500 ms, 1000 ms, 2000 ms.
C13_ThreeWaits ==
    backend = "zhipu" /\ outcome = "failure" => waits = <<500, 1000, 2000>>

\* C14: every batch is a single fragment longer than TARGET_MAX_LENGTH or has
\* a combined text of at most TARGET_MAX_LENGTH characters, and a fragment
\* longer than TARGET_MAX_LENGTH is alone in its batch.
C14_BatchWithinMax ==
    \A g \in 1..Len(groupedParagraphs) :
        LET batch == groupedParagraphs[g]
        IN  /\ \/ Len(batch) = 1 /\ paragraphLens[batch[1]] > TARGET_MAX_LENGTH
               \/ CombinedLength(batch) <= TARGET_MAX_LENGTH
            /\ \A k \in 1..Len(batch) : paragraphLens[batch[k]] > TARGET_MAX_LENGTH => Len(batch) = 1

\* C15: the batches partition the fragment list: no batch is empty, and the
\* batches' fragments, concatenated in batch order (followed, while the loop
\* runs, by the batch being accumulated), are the fragments handled so far in
\* extraction order; when the grouper is done every fragment is in a batch.
RECURSIVE Flatten(_)
Flatten(gs) == IF gs = <<>> THEN <<>> ELSE Head(gs) \o Flatten(Tail(gs))
C15_Partition ==
    /\ \A g \in 1..Len(groupedParagraphs) : Len(groupedParagraphs[g]) >= 1
    /\ Flatten(groupedParagraphs) \o currentBatch
           = [k \in 1..(Min(groupPos, Len(paragraphLens) + 1) - 1) |-> k]
    /\ GrouperDone => currentBatch = <<>>
C15_Witness ==
    /\ GrouperDone
    /\ Len(paragraphLens) >= 4
    /\ Len(groupedParagraphs) >= 3
    /\ \E g \in 1..Len(groupedParagraphs) : Len(groupedParagraphs[g]) >= 2
    /\ \E k \in 1..Len(paragraphLens) : paragraphLens[k] > TARGET_MAX_LENGTH
    /\ Len(groupedParagraphs[Len(groupedParagraphs)]) >= 2
    /\ paragraphLens[Len(paragraphLens)] < TARGET_MIN_LENGTH

\* C16: tasks are admitted in the order of their acquire calls: a waiter that
\* starts is the one that has waited longest, and an acquire call starts its
\* task at once only when no earlier caller is still waiting to start.
WaitingToStart == wakeups \o queue
C16_FifoAdmission ==
    [][\A c \in DOMAIN gate :
          /\ gate[c] \in {"queued", "woken"} /\ gate'[c] = "running" => c = Head(WaitingToStart)
          /\ gate[c] = "idle" /\ gate'[c] = "running" => WaitingToStart = <<>>]_vars

\* C17: a slot is given back only by a task that has finished, by return or
\* by throw: running decreases by exactly one, the head of the wait queue, if
\* any, and nobody else is woken; acquire's promise settles (the error of a
\* throwing task reaches the caller) only in that step.
Finished(pc) == pc \in {"returned", "threw"}
HasSettled(pc) == pc \in {"released", "rejected"}
C17_ReleaseAfterCompletion ==
    [][/\ \A c \in DOMAIN gate :
             /\ HasSettled(gate'[c]) /\ ~HasSettled(gate[c]) =>
                   /\ Finished(gate[c])
                   /\ gate'[c] = Settled(gate[c])
                   /\ running' = running - 1
                   /\ IF queue # <<>>
                      THEN /\ queue' = Tail(queue)
                           /\ wakeups' = Append(wakeups, Head(queue))
                           /\ gate'[Head(queue)] = "woken"
                           /\ \A w \in DOMAIN gate \ {c, Head(queue)} : gate'[w] = gate[w]
                      ELSE /\ queue' = queue
                           /\ wakeups' = wakeups
                           /\ \A w \in DOMAIN gate \ {c} : gate'[w] = gate[w]
             /\ Finished(gate[c]) /\ gate'[c] # gate[c] => HasSettled(gate'[c])
       /\ running' < running => \E c \in DOMAIN gate : Finished(gate[c]) /\ HasSettled(gate'[c])]_vars
C17_Witness ==
    \E c \in DOMAIN gate, w \in DOMAIN gate :
        /\ gate[c] = "rejected"
        /\ gate[w] = "woken"
        /\ wakeups = <<w>>
        /\ running = MaxConcurrent - 1

\* C18: when every started task finishes, a caller that had to wait
\* eventually starts its task, and no caller remains queued for ever while
\* the running count is below maxConcurrent.
C18_EveryCallerStarts ==
    \A c \in GateCallers :
        /\ (gate[c] = "queued") ~> (gate[c] = "running")
        /\ []<>~(gate[c] = "queued" /\ running < MaxConcurrent)
C18_Witness ==
    \E c \in DOMAIN gate, w \in DOMAIN gate :
        /\ gate[c] = "queued"
        /\ gate[w] = "woken"
        /\ running < MaxConcurrent

(***************************************************************************)
(* C19: addToCache(text, src, tgt, v) immediately followed by              *)
(* getFromCache(text, src, tgt) returns v, for every text, language pair   *)
(* and prior cache content, including a cache that was at capacity before  *)
(* the put.                                                                *)
(***************************************************************************)
C19_PutThenGet ==
    (/\ lastGet.called
     /\ "put" \in DOMAIN lastGet.follows
     /\ lastGet.follows.put = lastGet.text)
        => lastGet.result = lastGet.follows.value

\* the lookup followed a put made at capacity, which evicted another key
C19_Witness ==
    /\ lastGet.called
    /\ "put" \in DOMAIN lastGet.follows
    /\ lastGet.follows.put = lastGet.text
    /\ lastGet.result = lastGet.follows.value
    /\ lastGet.follows.wasFull
    /\ Len(cache) = MAX_CACHE_SIZE
    /\ cache[Len(cache)].key = getCacheKey(lastGet.text[1], lastGet.text[2], lastGet.text[3])

(***************************************************************************)
(* C20: after any sequence of addToCache calls the translation cache never *)
(* holds more than MAX_CACHE_SIZE entries (and, being a Map, holds each    *)
(* key once).                                                              *)
(***************************************************************************)
C20_CacheBounded ==
    /\ Len(cache) <= MAX_CACHE_SIZE
    /\ \A i \in 1..Len(cache), j \in 1..Len(cache) : cache[i].key = cache[j].key => i = j

\* a put has just been made into a cache that was at capacity
C20_Witness ==
    /\ "put" \in DOMAIN lastGet
    /\ lastGet.wasFull
    /\ Len(cache) = MAX_CACHE_SIZE

(***************************************************************************)
(* C21: an addToCache call made while the cache is at capacity evicts      *)
(* exactly one entry before the insert, the earliest inserted of those     *)
(* present (every other entry stays, in order, with its value); a call     *)
(* made below capacity evicts nothing.                                     *)
(***************************************************************************)
C21_FifoEviction ==
    [][("put" \in DOMAIN lastGet') =>
          LET k      == getCacheKey(lastGet'.put[1], lastGet'.put[2], lastGet'.put[3])
              kept   == IF Len(cache) >= MAX_CACHE_SIZE THEN Tail(cache) ELSE cache
              Other(e) == e.key # k
              others == SelectSeq(kept, Other)
              after  == SelectSeq(cache', Other)
          IN  /\ lastGet'.wasFull = (Len(cache) >= MAX_CACHE_SIZE)
              /\ after = others
              /\ MapHas(cache', k)
              /\ Len(cache') = Len(others) + 1
              /\ (lastGet'.wasFull /\ cache[1].key # k) => ~MapHas(cache', cache[1].key)
    ]_vars

\* a put of a new key into a full cache has just removed the oldest entry
C21_Witness ==
    /\ "put" \in DOMAIN lastGet
    /\ lastGet.wasFull
    /\ Len(cache) = MAX_CACHE_SIZE
    /\ cache[Len(cache)].key = getCacheKey(lastGet.put[1], lastGet.put[2], lastGet.put[3])
    /\ cache[Len(cache)].value = lastGet.value

C23_OneWritePerAnchor ==
    [][\A a \in DOMAIN rwDoc :
          LET shared == {k \in 1..Len(rwParas) : rwParas[k].anchor = a /\ IsTranslated(rwParas[k])}
              texts  == [i \in 1..Cardinality(shared) |-> rwParas[SortedSeq(shared)[i]].translatedText]
              Whole(el) == el.pieces = texts \/ el.pieces = <<Join(texts, <<"\n", "\n">>)>>
          IN  /\ (rwDoc'[a] # rwDoc[a]) =>
                    /\ rwParas[rwIdx].anchor = a
                    /\ \A k \in shared : k >= rwIdx
                    /\ Whole(rwDoc'[a])
              /\ (rwIdx' > Len(rwParas) /\ shared # {}) => Whole(rwDoc'[a])
    ]_vars

\* the stage has ended on a block element that two translated fragments share
C23_Witness ==
    /\ RewriteDone
    /\ \E a \in DOMAIN rwDoc :
          /\ a \in replacedElements
          /\ Cardinality({k \in 1..Len(rwParas) : rwParas[k].anchor = a /\ IsTranslated(rwParas[k])}) = 2
          /\ Len(rwDoc[a].pieces) = 2

C25_OneAnchorPerText ==
    /\ \A i \in 1..Len(dom) :
          (i < exPos /\ acceptNode(dom, i)) =>
              Cardinality({exParas[k].anchor : k \in
                  {n \in 1..Len(exParas) : Contains(exParas[n].originalText, Trim(NodeText(dom, i)))}}) = 1
    /\ \A k \in 1..Len(exParas) : exParas[k].anchor \notin detached

(***************************************************************************)
(* C26: after all batches of a document have finished and before the       *)
(* rewrite stage, each fragment that still has no translation              *)
(* (translatedText absent or equal to originalText) is retried by exactly  *)
(* one single-fragment request: the pass starts when no batch task of the  *)
(* document is unfinished, its list holds exactly the fragments without a  *)
(* translation, each once, the requests go through the list position by    *)
(* position, every request is for a fragment that has no translation, and  *)
(* the pass ends only after the last position.                             *)
(***************************************************************************)
C26_RetryEachUntranslatedOnce ==
    [][\A d \in Docs :
          LET without == {k \in 1..Len(pParas'[d]) :
                             \/ ~Truthy(pParas'[d][k].translatedText)
                             \/ pParas'[d][k].translatedText = pParas'[d][k].originalText}
          IN  /\ (docPc[d] # "retry" /\ docPc'[d] = "retry") =>
                    /\ \A c \in TasksOf(d) : task'[c].pc \in {"pending", "finished"}
                    /\ docIdx'[d] = 1
                    /\ Len(retryList'[d]) = Cardinality(without)
                    /\ {retryList'[d][j] : j \in 1..Len(retryList'[d])} = without
              /\ (docPc[d] = "retry" /\ docPc'[d] = "retry") =>
                    /\ retryList'[d] = retryList[d]
                    /\ docIdx'[d] \in {docIdx[d], docIdx[d] + 1}
              /\ (docPc'[d] = "retry") => retryList'[d][docIdx'[d]] \in without
              /\ (docPc[d] = "retry" /\ docPc'[d] = "done") => docIdx[d] = Len(retryList[d])
              /\ (docPc[d] \notin {"retry", "done"} /\ docPc'[d] = "done") => without = {}
    ]_vars

\* the second request of a retry pass is in flight in a document that also
\* has a translated fragment
C26_Witness ==
    \E d \in DOMAIN docPc :
        /\ docPc[d] = "retry"
        /\ docIdx[d] = 2
        /\ \E c \in TasksOf(d) : task[c].result = "translated"
        /\ \E k \in 1..Len(pParas[d]) :
              Truthy(pParas[d][k].translatedText) /\ pParas[d][k].translatedText # pParas[d][k].originalText

(***************************************************************************)
(* C27: batches that exhaust their retries do not fail the document's      *)
(* pipeline: when all batch tasks have resolved, with any number of them   *)
(* failed, the pipeline goes on to the retry pass with every fragment of a *)
(* failed batch in its list and the failure recorded as the fragment's     *)
(* skipReason, and when the pipeline returns each fragment of a failed     *)
(* batch either was recovered by the retry pass or still carries that      *)
(* skipReason.                                                             *)
(***************************************************************************)
C27_BatchFailuresAbsorbed ==
    [][\A d \in Docs : \A b \in DOMAIN groups[d] :
          task'[<<d, b>>].result = "failed" =>
              \A k \in groups[d][b].start..(groups[d][b].start + groups[d][b].count - 1) :
                  /\ (docPc[d] = "awaitAll" /\ docPc'[d] # "awaitAll") =>
                        /\ docPc'[d] = "retry"
                        /\ \E j \in 1..Len(retryList'[d]) : retryList'[d][j] = k
                        /\ pParas'[d][k].skipReason = SkipApiFailed
                        /\ ~Truthy(pParas'[d][k].translatedText)
                  /\ (docPc'[d] = "done") =>
                        \/ pParas'[d][k].skipReason = SkipApiFailed
                        \/ /\ pParas'[d][k].skipReason = Null
                           /\ pParas'[d][k].translatedText = TranslatedAs(pParas'[d][k].originalText)
    ]_vars

\* a document whose batches all failed has gone through the retry pass and returned
C27_Witness ==
    \E d \in DOMAIN docPc :
        /\ docPc[d] = "done"
        /\ \A c \in TasksOf(d) : task[c].result \in {"failed", "skipped"}
        /\ \E c \in TasksOf(d) : task[c].result = "failed"
        /\ \E k \in 1..Len(pParas[d]) : pParas[d][k].skipReason = SkipApiFailed
        /\ \E k \in 1..Len(pParas[d]) : pParas[d][k].translatedText = TranslatedAs(pParas[d][k].originalText)

(***************************************************************************)
(* C28: in a run over several EPUBs, an EPUB whose translation aborts with *)
(* an error (translateText throws while no cancellation was asked for) is  *)
(* reported as failed, never as completed, and the run goes on with the    *)
(* next EPUB.                                                              *)
(***************************************************************************)
C28_AbortedReportedFailed ==
    [][(/\ runMode = "multi"
        /\ runPc = "translating"
        /\ ~shouldCancel
        /\ runPc' \in {"fileStart", "ended"})
         => /\ fileStatus'[epubIdx] = "failed"
            /\ epubIdx < NumEpubs => (runPc' = "fileStart" /\ epubIdx' = epubIdx + 1)
    ]_vars

(***************************************************************************)
(* C29: with a fixed backend response per batch text, a fragment's         *)
(* translatedText does not depend on the order in which the concurrent     *)
(* batch requests complete.  Two batches with the same text and the same   *)
(* number of fragments, one answered by the backend and the other started  *)
(* after that answer (and so served from the cache with the very same      *)
(* response text), are the two outcomes the completion order decides       *)
(* between: their fragments' translations must agree.                      *)
(***************************************************************************)
C29_OrderIndependent ==
    \A c1 \in TaskIds, c2 \in TaskIds :
        (/\ combinedText(c1[1], c1[2]) = combinedText(c2[1], c2[2])
         /\ groups[c1[1]][c1[2]].count = groups[c2[1]][c2[2]].count
         /\ task[c1].result = "translated"
         /\ task[c2].result = "cached"
         /\ \A c3 \in TaskIds \ {c1} :
               combinedText(c3[1], c3[2]) = combinedText(c1[1], c1[2]) => task[c3].result # "translated")
        => \A i \in 0..(groups[c1[1]][c1[2]].count - 1) :
              LET p1 == pParas[c1[1]][groups[c1[1]][c1[2]].start + i]
                  p2 == pParas[c2[1]][groups[c2[1]][c2[2]].start + i]
              IN  (IsTranslated(p1) /\ IsTranslated(p2)) => p1.translatedText = p2.translatedText

(***************************************************************************)
(* C30: the percent written to the progress display never decreases        *)
(* during a run, and the translated-character counter behind it only       *)
(* increases, also across the EPUBs of a run over several and across       *)
(* concurrently translated files.                                          *)
(***************************************************************************)
C30_ProgressMonotone ==
    [][/\ progressPercent' >= progressPercent
       /\ translatedChars' >= translatedChars]_vars

(***************************************************************************)
(* C31: with equal source and target language no backend request is made;  *)
(* the zh-to-zh path copies every entry, its content unchanged unless the   *)
(* vertical-to-horizontal conversion was asked for.  The first half is      *)
(* C31_NoRequest; the second, C31_FormatOnlyCopies, fails for an entry      *)
(* that is not plain UTF-8.                                                  *)
(***************************************************************************)
C31_NoRequest == (selSource = selTarget) => requests = 0

C31_FormatOnlyCopies ==
    (fmtPc = "done" /\ selSource = selTarget /\ ~convertChecked)
        => fmtOut = FilesOf(epubFiles)

(***************************************************************************)
(* C32: provided every request is eventually answered, fails or is aborted *)
(* by its timer, the pipeline of a document terminates: no batch task makes *)
(* more than maxRetries (3) attempts, the retry pass never moves back in   *)
(* its list (at most one request per fragment), and every document          *)
(* eventually returns.                                                      *)
(***************************************************************************)
C32_PipelineTerminates ==
    /\ [](\A c \in TaskIds :
            /\ task[c].retries <= maxRetries
            /\ task[c].pc \in {"inflight", "backoff"} => task[c].retries < maxRetries)
    /\ [][\A d \in Docs :
            (docPc[d] = "retry" /\ docPc'[d] = "retry") => docIdx'[d] >= docIdx[d]]_vars
    /\ <>[](\A d \in Docs : docPc[d] = "done")

\* a document has returned after one of its batches failed three times and
\* the retry pass sent a request for each of that batch's fragments
C32_Witness ==
    \E d \in Docs :
        /\ docPc[d] = "done"
        /\ Len(retryList[d]) >= 2
        /\ \E c \in TasksOf(d) : task[c].retries = maxRetries /\ task[c].result = "failed"

(***************************************************************************)
(* C33: the split used for a fresh response is the double-line-break split  *)
(* if its count equals expectedCount, else the single-line-break split if   *)
(* its count does, else the one whose count is closer (the double one on a  *)
(* tie); so its distance to expectedCount is the smaller of the two, in     *)
(* both pipelines.                                                          *)
(***************************************************************************)
C33_ClosestSplitChosen ==
    recPath \in {"zhipuFresh", "openRouterFresh"} =>
        LET d == doubleNewlineSplit(recIn.text)
            g == singleNewlineSplit(recIn.text)
            e == recIn.expectedCount
            ruled == IF Len(d) = e THEN d
                     ELSE IF Len(g) = e THEN g
                     ELSE IF Abs(Len(g) - e) < Abs(Len(d) - e) THEN g
                     ELSE d
        IN  /\ Len(RecLines) = Len(ruled)
            /\ Abs(Len(RecLines) - e) <= Abs(Len(d) - e)
            /\ Abs(Len(RecLines) - e) <= Abs(Len(g) - e)

(***************************************************************************)
(* C34: the running batch is closed as soon as the sum of its fragments'    *)
(* lengths reaches TARGET_MIN_LENGTH (300) or it holds 8 fragments: the     *)
(* running batch is always below both thresholds, no batch has more than 8  *)
(* fragments, every batch was below both thresholds before its last         *)
(* fragment was added, and every batch that is neither the last one of the  *)
(* document nor followed by the batch of an oversized fragment has reached  *)
(* one of the thresholds.                                                   *)
(***************************************************************************)
RECURSIVE LengthSum(_)
LengthSum(batch) ==
    IF batch = <<>> THEN 0 ELSE paragraphLens[Head(batch)] + LengthSum(Tail(batch))
OversizedBatch(batch) == Len(batch) = 1 /\ paragraphLens[batch[1]] > TARGET_MAX_LENGTH
C34_ClosedAtThreshold ==
    /\ currentLength = LengthSum(currentBatch)
    /\ currentLength < TARGET_MIN_LENGTH
    /\ Len(currentBatch) < MaxBatchCount
    /\ \A g \in 1..Len(groupedParagraphs) :
        LET batch == groupedParagraphs[g]
            before == SubSeq(batch, 1, Len(batch) - 1)
            isLast == g = Len(groupedParagraphs) /\ groupPos = Len(paragraphLens) + 2
            beforeOversized == g < Len(groupedParagraphs) /\ OversizedBatch(groupedParagraphs[g + 1])
        IN  /\ Len(batch) <= MaxBatchCount
            /\ LengthSum(before) < TARGET_MIN_LENGTH
            /\ Len(before) < MaxBatchCount
            /\ (~isLast /\ ~beforeOversized)
                   => (LengthSum(batch) >= TARGET_MIN_LENGTH \/ Len(batch) = MaxBatchCount)

\* the grouper is done; a batch of 8 short fragments was closed by the count
\* and is not the last one, and another batch follows it
C34_Witness ==
    /\ GrouperDone
    /\ Len(groupedParagraphs) >= 2
    /\ Len(groupedParagraphs[1]) = MaxBatchCount
    /\ LengthSum(groupedParagraphs[1]) < TARGET_MIN_LENGTH

(***************************************************************************)
(* C35: within one document the batch tasks, and so their requests, start   *)
(* in batch creation order: when the task of batch j starts (at once or     *)
(* after waiting in the gate's queue), the task of every batch i < j of the *)
(* document has started before; a first request of batch j is sent only     *)
(* after batch i has sent its first request or finished without one.        *)
(***************************************************************************)
C35_DispatchInBatchOrder ==
    [][\A ci \in TaskIds, cj \in TaskIds :
          (/\ ci[1] = cj[1]
           /\ ci[2] < cj[2]
           /\ task[cj].pc = "pending"
           /\ task'[cj].pc # "pending")
              => /\ task[ci].pc # "pending"
                 /\ gate[ci] \notin {"idle", "queued", "woken"}]_vars

\* the third and fourth batch of a document both waited in the queue, and
\* both have sent their first request
C35_Witness ==
    \E d \in Docs :
        /\ Len(groups[d]) = 4
        /\ task[<<d, 3>>].pc = "inflight" /\ task[<<d, 3>>].retries = 0
        /\ task[<<d, 4>>].pc = "inflight" /\ task[<<d, 4>>].retries = 0

(***************************************************************************)
(* C36: running equals the number of tasks that were started and whose      *)
(* finally block has not run yet; it is never negative; a step changes it   *)
(* only by +1, when one caller's task starts, or by -1, when one finished   *)
(* task gives its slot back; and when no task holds a slot and no woken     *)
(* waiter is about to start, running is 0 and the queue is empty.           *)
(***************************************************************************)
SlotHolders == {c \in DOMAIN gate : gate[c] \in {"running", "returned", "threw"}}
C36_CountMatchesTasks ==
    /\ [](/\ running = Cardinality(SlotHolders)
          /\ running >= 0
          /\ (SlotHolders = {} /\ wakeups = <<>>) => (running = 0 /\ queue = <<>>))
    /\ [][LET starting == {c \in DOMAIN gate : gate[c] \in {"idle", "woken"} /\ gate'[c] = "running"}
              leaving == {c \in DOMAIN gate : gate[c] \in {"returned", "threw"}
                                                /\ gate'[c] \in {"released", "rejected"}}
          IN  /\ running' = running + Cardinality(starting) - Cardinality(leaving)
              /\ Cardinality(starting) + Cardinality(leaving) <= 1]_vars

\* one task has given its slot back and woken a waiter, another task still
\* runs, and a further caller is queued
C36_Witness ==
    /\ \E c \in DOMAIN gate : gate[c] \in {"released", "rejected"}
    /\ \E c \in DOMAIN gate : gate[c] = "woken"
    /\ \E c \in DOMAIN gate : gate[c] = "queued"
    /\ running = 1
    /\ Cardinality(SlotHolders) = 1

(***************************************************************************)
(* C37: serving a batch from the cache gives every fragment the same        *)
(* translatedText and the same unresolved marking (skipReason) as the       *)
(* fresh-response reconciliation of the cached text gives, for every stored *)
(* text and every expectedCount.                                            *)
(***************************************************************************)
RecBefore ==
    [k \in 1..(recIn.expectedCount + 1) |->
        IF k <= recIn.expectedCount THEN NewPara(k)
        ELSE [NewPara(k) EXCEPT !.translatedText = recIn.other]]
C37_CacheHitAsFresh ==
    recPath = "cacheHit" =>
        recParas = ForEachZhipu(RecBefore, ZhipuLines(recIn.text, recIn.expectedCount),
                                recIn.expectedCount)

(***************************************************************************)
(* C38: a batch whose combined text is empty or holds only digits,          *)
(* whitespace, punctuation and symbols is skipped: no batch request is in   *)
(* flight for it, and no request of the retry pass is in flight for one of  *)
(* its fragments.                                                           *)
(***************************************************************************)
C38_SkippedNeverRequested ==
    /\ \A c \in TaskIds :
          SkipRule(combinedText(c[1], c[2])) => task[c].pc \notin {"inflight", "backoff"}
    /\ \A d \in Docs :
          docPc[d] = "retry" => pParas[d][RetryPara(d)].skipReason \notin {SkipEmpty, SkipDigits}

(***************************************************************************)
(* C39: from the start of a run until it ends isTranslating is true, so    *)
(* that handleCancel sets the flag at any moment of the run, also while the *)
(* second and later EPUBs of a run over several are translated; and the    *)
(* flag, once set, stays set until the run ends.                            *)
(***************************************************************************)
RunInProgress == runPc \notin {"idle", "ended"}
C39_CancellableUntilEnd ==
    /\ [](RunInProgress => isTranslating)
    /\ [][(shouldCancel /\ RunInProgress) => shouldCancel']_vars

====
